---- MODULE Spec2Model ----
(***************************************************************************)
(* TCP flow forensics scripts of frame-analysis-examples/.                 *)
(*                                                                         *)
(* Part 1: PCAPAnalyzer of pcap_analyzer.py (bidirectional TCPFlow table,  *)
(* handshake and continuous RTT sampling, retransmission and zero-window   *)
(* counters).                                                              *)
(*                                                                         *)
(* Conventions.  An IP address is the text inet_to_str returns; it is      *)
(* modelled as the sequence of its characters (digits), compared the way   *)
(* Python compares str.  An endpoint is the tuple <<ip, port>>.  Capture   *)
(* timestamps are whole ticks of one second.  Python's None is the value   *)
(* None below; a timestamp is "truthy" when it is neither None nor 0.      *)
(* Fields of TCPFlow that no modelled operation reads back (bytes_count,   *)
(* payload_bytes, window_sizes, first_ack_ts, key) are left out.           *)
(***************************************************************************)
EXTENDS Integers, Sequences, FiniteSets, TLC

VARIABLES
    flows,              \* PCAPAnalyzer.flows: canonical key -> TCPFlow
    tcp_count,          \* StatsAnalyzer.tcp_count
    global_syn, global_syn_ack, global_fin, global_rst, global_zero_window,
    pkt,                \* the segment _analyze_tcp was last called with
    clock,              \* timestamp of the last record read from the capture
    script,             \* position in a scripted capture (scenario specifications)
    state,              \* pcap_analyzer_v4.py: GlobalState
    seqlog,             \* history: per directional flow, the start seqs of its
                        \* payload segments in arrival order
    rflows,             \* analyze_and_generate_report.py: flows of analyze_pcap
    unacked_packets,    \* analyze_and_generate_report.py: pending ACKs per flow
    report,             \* analyze_and_generate_report.py: what main has computed
    stats,              \* the per-flow statistics handed to a scorer
    diag,               \* the scorer's result: the triple (c, n, s) / den
    engine,             \* pcap_analyzer_v9.py: ForensicEngine
    prof,               \* tcp_professional_report.py: the run of main
    trend,              \* analyze_tcp_dpkt_full_trend.py: the run of the script
    seglog,             \* history: per flow key, the segments in arrival order
    wal,                \* wal_rename_v2.py: the directory and the run of the tool
    forensics,          \* pcap_analyzer_v10.py: ForensicsEngine
    tcp_engine          \* pcap_analyzer_v8.py: TCPAnalyzer and main's packet_count

paState == <<flows, tcp_count, global_syn, global_syn_ack, global_fin,
             global_rst, global_zero_window>>

capture == <<pkt, clock>>

v4State == <<state, seqlog>>

(* everything that is not state of PCAPAnalyzer *)
scoreState == <<stats, diag>>

reportState == <<rflows, unacked_packets, report>>

(* the runs of pcap_analyzer_v9.py, tcp_professional_report.py and
   analyze_tcp_dpkt_full_trend.py, and the segment history *)
toolRuns == <<wal, forensics, tcp_engine>>

otherRuns == <<engine, prof, trend, seglog, toolRuns>>

nonPaVars == <<script, v4State, scoreState, reportState, otherRuns>>

vars == <<paState, capture, script, v4State, scoreState, reportState, otherRuns>>

----------------------------------------------------------------------------
(* Bounds of the model *)

MaxPkts == 3        \* segments read from one capture

MaxRuns == 2        \* invocations of wal_rename_v2.py on one directory

----------------------------------------------------------------------------
(* Generic helpers: Python dict operations *)

DictSet(d, k, v) == [x \in (DOMAIN d) \cup {k} |-> IF x = k THEN v ELSE d[x]]

DictDel(d, ks) == [x \in (DOMAIN d) \ ks |-> d[x]]

EmptyDict == [x \in {} |-> 0]

----------------------------------------------------------------------------
(* Python ordering of str and of (str, int) tuples *)

RECURSIVE StrLess(_, _)
StrLess(a, b) ==
    IF a = <<>> THEN b # <<>>
    ELSE IF b = <<>> THEN FALSE
    ELSE IF Head(a) # Head(b) THEN Head(a) < Head(b)
    ELSE StrLess(Tail(a), Tail(b))

EndpointLess(ea, eb) ==
    IF ea[1] # eb[1] THEN StrLess(ea[1], eb[1]) ELSE ea[2] < eb[2]

----------------------------------------------------------------------------
(* pcap_analyzer.py *)

None == -1

MsPerSec == 1000

Truthy(t) == t # None /\ t # 0

TCPFlow ==
    [ packets_count |-> 0, start_ts |-> None, end_ts |-> None,
      syn_count |-> 0, syn_ack_count |-> 0, fin_count |-> 0, rst_count |-> 0,
      handshake_complete |-> FALSE,
      syn_ts |-> None, syn_ack_ts |-> None,
      rtt_samples |-> <<>>,
      sent_seqs |-> [d \in {0, 1} |-> EmptyDict],
      max_seq |-> [d \in {0, 1} |-> 0],
      retransmissions |-> 0, zero_windows |-> 0 ]

add_rtt_sample(flow, rtt) ==
    IF rtt > 0 THEN [flow EXCEPT !.rtt_samples = Append(@, rtt)] ELSE flow

(* mutant: a segment that starts exactly at the watermark is taken for a
   retransmission *)
check_retransmission_inclusive(flow, direction, seq, payload_len) ==
    IF payload_len = 0 THEN flow
    ELSE IF seq <= flow.max_seq[direction]
         THEN [flow EXCEPT !.retransmissions = @ + 1]
         ELSE [flow EXCEPT !.max_seq[direction] = seq + payload_len]

check_retransmission(flow, direction, seq, payload_len) ==
    IF payload_len = 0 THEN flow
    ELSE IF seq < flow.max_seq[direction]
         THEN [flow EXCEPT !.retransmissions = @ + 1]
         ELSE [flow EXCEPT !.max_seq[direction] = seq + payload_len]

(* mutant: the comparison looks at the address only and ignores the port *)
get_flow_key_ip_only(endpoint_a, endpoint_b) ==
    IF StrLess(endpoint_a[1], endpoint_b[1])
    THEN [key |-> <<endpoint_a, endpoint_b>>, direction |-> 0]
    ELSE [key |-> <<endpoint_b, endpoint_a>>, direction |-> 1]

get_flow_key(endpoint_a, endpoint_b) ==
    IF EndpointLess(endpoint_a, endpoint_b)
    THEN [key |-> <<endpoint_a, endpoint_b>>, direction |-> 0]
    ELSE [key |-> <<endpoint_b, endpoint_a>>, direction |-> 1]

(* _analyze_tcp, lines 220-224: basic stats *)
(* mutant: the flow counts the records of the whole capture *)
BasicStats_shared_count(flow, seg) ==
    [flow EXCEPT !.packets_count = tcp_count + 1,
                 !.start_ts = IF ~Truthy(@) THEN seg.ts ELSE @,
                 !.end_ts = seg.ts]

BasicStats(flow, seg) ==
    [flow EXCEPT !.packets_count = @ + 1,
                 !.start_ts = IF ~Truthy(@) THEN seg.ts ELSE @,
                 !.end_ts = seg.ts]

(* _analyze_tcp, lines 236-262: flag counters and handshake RTT *)
HandshakeSynPart(flow, seg) ==
    IF seg.is_syn /\ seg.is_ack THEN
        LET f1 == [flow EXCEPT !.syn_ack_count = @ + 1, !.syn_ack_ts = seg.ts]
        IN IF Truthy(flow.syn_ts)
           THEN add_rtt_sample(f1, (seg.ts - flow.syn_ts) * MsPerSec)
           ELSE f1
    ELSE IF seg.is_syn THEN
        [flow EXCEPT !.syn_count = @ + 1,
                     !.syn_ts = IF ~Truthy(@) THEN seg.ts ELSE @]
    ELSE flow

FinRstPart(flow, seg) ==
    [flow EXCEPT !.fin_count = IF seg.is_fin THEN @ + 1 ELSE @,
                 !.rst_count = IF seg.is_rst THEN @ + 1 ELSE @]

HandshakeAckPart(flow, seg) ==
    IF seg.is_ack /\ ~seg.is_syn /\ Truthy(flow.syn_ack_ts) /\ seg.ts > flow.syn_ack_ts
       /\ ~flow.handshake_complete
    THEN add_rtt_sample([flow EXCEPT !.handshake_complete = TRUE],
                        (seg.ts - flow.syn_ack_ts) * MsPerSec)
    ELSE flow

HandshakeLogic(flow, seg) ==
    HandshakeAckPart(FinRstPart(HandshakeSynPart(flow, seg), seg), seg)

(* _analyze_tcp, lines 264-268: window analysis *)
IsZeroWindow(seg) == seg.win = 0

(* mutant: the flow's counter leaves out RST segments, the global one does not *)
WindowAnalysis_skip_rst(flow, seg) ==
    IF IsZeroWindow(seg) /\ ~seg.is_rst
    THEN [flow EXCEPT !.zero_windows = @ + 1]
    ELSE flow

WindowAnalysis(flow, seg) ==
    IF IsZeroWindow(seg) THEN [flow EXCEPT !.zero_windows = @ + 1] ELSE flow

(* _analyze_tcp, lines 278-285: remember when the data was sent *)
StoreSent(flow, direction, seg) ==
    IF seg.len > 0 \/ (seg.is_syn /\ ~seg.is_ack) \/ seg.is_fin THEN
        LET next_seq == seg.seq + seg.len
                        + (IF seg.is_syn /\ ~seg.is_ack THEN 1 ELSE 0)
                        + (IF seg.is_fin THEN 1 ELSE 0)
        IN [flow EXCEPT !.sent_seqs[direction] = DictSet(@, next_seq, seg.ts)]
    ELSE flow

(* _analyze_tcp, lines 300-306: drop the fully acknowledged entries *)
(* mutant: the clean-up keeps the entry just below the acknowledgment *)
CleanupAcked_off_by_one(pending, ack_num) ==
    DictDel(pending, {k \in DOMAIN pending : k < ack_num - 1})

CleanupAcked(pending, ack_num) ==
    DictDel(pending, {k \in DOMAIN pending : k < ack_num})

(* _analyze_tcp, lines 287-306: an incoming ACK completes a measurement *)
ResolveAck(flow, direction, seg) ==
    LET opp == IF direction = 0 THEN 1 ELSE 0
        pending == flow.sent_seqs[opp]
    IN IF seg.is_ack /\ seg.ack > 0 THEN
          LET rtt == (seg.ts - pending[seg.ack]) * MsPerSec
              f1 == IF seg.ack \in DOMAIN pending /\ rtt > 0
                    THEN [add_rtt_sample(flow, rtt) EXCEPT
                             !.sent_seqs[opp] = DictDel(@, {seg.ack})]
                    ELSE flow
          IN [f1 EXCEPT !.sent_seqs[opp] = CleanupAcked(@, seg.ack)]
       ELSE flow

(* the state of the segment's flow after _analyze_tcp *)
FlowAfter(flow, direction, seg) ==
    LET f1 == BasicStats(flow, seg)
        f2 == HandshakeLogic(f1, seg)
        f3 == WindowAnalysis(f2, seg)
        f4 == check_retransmission(f3, direction, seg.seq, seg.len)
        f5 == StoreSent(f4, direction, seg)
    IN ResolveAck(f5, direction, seg)

B2N(b) == IF b THEN 1 ELSE 0

(* _analyze_tcp, lines 214-218: create the flow if it does not exist *)
(* mutant: every segment starts its flow afresh *)
FlowOf_fresh(fl, key) == TCPFlow

FlowOf(fl, key) == IF key \in DOMAIN fl THEN fl[key] ELSE TCPFlow

(* PCAPAnalyzer.process (one TCP record) and _analyze_tcp *)
AnalyzeTcp(seg) ==
    LET fk == get_flow_key(seg.src, seg.dst)
        flow == FlowOf(flows, fk.key)
    IN /\ flows' = DictSet(flows, fk.key, FlowAfter(flow, fk.direction, seg))
       /\ tcp_count' = tcp_count + 1
       /\ global_syn_ack' = global_syn_ack + B2N(seg.is_syn /\ seg.is_ack)
       /\ global_syn' = global_syn + B2N(seg.is_syn /\ ~seg.is_ack)
       /\ global_fin' = global_fin + B2N(seg.is_fin)
       /\ global_rst' = global_rst + B2N(seg.is_rst)
       /\ global_zero_window' = global_zero_window + B2N(IsZeroWindow(seg))
       /\ pkt' = <<seg>>
       /\ clock' = seg.ts

----------------------------------------------------------------------------
(* pcap_analyzer_v4.py: directional flows, keyed by <<source, destination>>,
   the endpoints standing for (src_ip, sport) and (dst_ip, dport) *)

RttSanityMax == 5

JitterGapMax == 1

FlowMetrics ==
    [ packet_count |-> 0,
      syn_count |-> 0, syn_ack_count |-> 0, fin_count |-> 0, rst_count |-> 0,
      unacked_packets |-> EmptyDict, rtt_samples |-> <<>>,
      last_packet_ts |-> 0, jitter_samples |-> <<>>,
      retransmissions |-> 0, out_of_order |-> 0, zero_window_count |-> 0,
      seen_seqs |-> {}, max_seq |-> 0 ]

GlobalState ==
    [ start_ts |-> 0, end_ts |-> 0, total_packets |-> 0, flows |-> EmptyDict ]

(* BasicStatsAnalyzer.process *)
V4BasicStats(flow, seg) ==
    [flow EXCEPT
        !.packet_count = @ + 1,
        !.syn_ack_count = IF seg.is_syn /\ seg.is_ack THEN @ + 1 ELSE @,
        !.syn_count = IF seg.is_syn /\ ~seg.is_ack THEN @ + 1 ELSE @,
        !.fin_count = IF seg.is_fin THEN @ + 1 ELSE @,
        !.rst_count = IF seg.is_rst THEN @ + 1 ELSE @]

(* StreamAnalyzer.process_packet, lines 231-239: the ACK of the reverse
   flow's pending data *)
V4ResolveAck(rev_flow, seg) ==
    IF seg.is_ack /\ seg.ack \in DOMAIN rev_flow.unacked_packets THEN
        LET rtt == seg.ts - rev_flow.unacked_packets[seg.ack]
            popped == [rev_flow EXCEPT !.unacked_packets = DictDel(@, {seg.ack})]
        IN IF 0 < rtt /\ rtt < RttSanityMax
           THEN [popped EXCEPT !.rtt_samples = Append(@, rtt)]
           ELSE popped
    ELSE rev_flow

(* mutant: every payload segment registers, retransmitted or not *)
V4TrackPending_no_karn(flow, seg) ==
    IF seg.len > 0
    THEN [flow EXCEPT !.unacked_packets = DictSet(@, seg.seq + seg.len, seg.ts)]
    ELSE flow

(* RTTAnalyzer.process, lines 116-120 *)
V4TrackPending(flow, seg) ==
    IF seg.len > 0 /\ seg.seq \notin flow.seen_seqs
    THEN [flow EXCEPT !.unacked_packets = DictSet(@, seg.seq + seg.len, seg.ts)]
    ELSE flow

(* RTTAnalyzer.process, lines 142-146 *)
V4Jitter(flow, seg) ==
    LET delta == seg.ts - flow.last_packet_ts
        f1 == IF flow.last_packet_ts > 0 /\ delta < JitterGapMax
              THEN [flow EXCEPT !.jitter_samples = Append(@, delta)]
              ELSE flow
    IN [f1 EXCEPT !.last_packet_ts = seg.ts]

(* AnomalyDetector.process, lines 156-158 *)
V4ZeroWindow(flow, seg) ==
    IF seg.win = 0 /\ ~seg.is_rst
    THEN [flow EXCEPT !.zero_window_count = @ + 1]
    ELSE flow

(* mutant: a segment below the high-water mark counts as a retransmission *)
V4IsRetransmission_watermark(flow, seq) == seq < flow.max_seq

(* AnomalyDetector.process, line 162 *)
V4IsRetransmission(flow, seq) == seq \in flow.seen_seqs

(* mutant: the payload test of line 160 left out *)
V4Anomalies_any_segment(flow, seg) ==
    LET f1 == IF V4IsRetransmission(flow, seg.seq)
              THEN [flow EXCEPT !.retransmissions = @ + 1]
              ELSE [flow EXCEPT !.seen_seqs = @ \cup {seg.seq}]
        f2 == IF seg.seq < f1.max_seq /\ seg.seq \notin f1.seen_seqs
              THEN [f1 EXCEPT !.out_of_order = @ + 1]
              ELSE f1
    IN IF seg.seq > f2.max_seq THEN [f2 EXCEPT !.max_seq = seg.seq] ELSE f2

(* AnomalyDetector.process, lines 160-173 *)
V4Anomalies(flow, seg) ==
    IF seg.len > 0 THEN
        LET f1 == IF V4IsRetransmission(flow, seg.seq)
                  THEN [flow EXCEPT !.retransmissions = @ + 1]
                  ELSE [flow EXCEPT !.seen_seqs = @ \cup {seg.seq}]
            f2 == IF seg.seq < f1.max_seq /\ seg.seq \notin f1.seen_seqs
                  THEN [f1 EXCEPT !.out_of_order = @ + 1]
                  ELSE f1
        IN IF seg.seq > f2.max_seq THEN [f2 EXCEPT !.max_seq = seg.seq] ELSE f2
    ELSE flow

V4Get(fl, key) == IF key \in DOMAIN fl THEN fl[key] ELSE FlowMetrics

(* StreamAnalyzer.process_packet *)
ProcessPacket(seg) ==
    LET flow_key == <<seg.src, seg.dst>>
        rev_flow_key == <<seg.dst, seg.src>>
        created == DictSet(DictSet(state.flows, flow_key, V4Get(state.flows, flow_key)),
                           rev_flow_key, V4Get(state.flows, rev_flow_key))
        basic == [created EXCEPT ![flow_key] = V4BasicStats(@, seg)]
        acked == [basic EXCEPT ![rev_flow_key] = V4ResolveAck(@, seg)]
        done == [acked EXCEPT ![flow_key] =
                    V4Anomalies(V4ZeroWindow(V4Jitter(V4TrackPending(@, seg), seg),
                                             seg), seg)]
    IN /\ state' = [ flows |-> done,
                     total_packets |-> state.total_packets + 1,
                     start_ts |-> IF state.start_ts = 0 THEN seg.ts ELSE state.start_ts,
                     end_ts |-> seg.ts ]
       /\ seqlog' = IF seg.len > 0
                    THEN DictSet(seqlog, flow_key,
                                 Append(IF flow_key \in DOMAIN seqlog
                                        THEN seqlog[flow_key] ELSE <<>>, seg.seq))
                    ELSE seqlog
       /\ pkt' = <<seg>>
       /\ clock' = seg.ts

----------------------------------------------------------------------------
(* The per-flow scorers.  Scores are kept as exact fractions: a scorer returns
   the numerators c, n, s and the common denominator den of the triple.  Times
   are in milliseconds, and the mean of the window samples is given by their
   sum win_sum over count samples. *)

RECURSIVE SeqSum(_)
SeqSum(q) == IF q = <<>> THEN 0 ELSE Head(q) + SeqSum(Tail(q))

RECURSIVE SeqSumSq(_)
SeqSumSq(q) == IF q = <<>> THEN 0 ELSE Head(q) * Head(q) + SeqSumSq(Tail(q))

(* numpy.std(q) > thresh, for a non-empty q: n * sum(x^2) - sum(x)^2 > (thresh * n)^2 *)
StdAbove(q, thresh) ==
    LET n == Len(q)
    IN n * SeqSumSq(q) - SeqSum(q) * SeqSum(q) > thresh * thresh * n * n

Normalized(c, n, s) == [c |-> c, n |-> n, s |-> s, den |-> c + n + s]

(* analyze_and_generate_report.py *)
RttJitterThreshMs == 50

MinRttSamples == 3

LowWinThresh == 500

LowWinMinCount == 10

(* the unnormalised scores of calculate_probabilities, scaled by 10 * count *)
ReportScores(fm) ==
    LET low == (IF fm.count > 0 THEN fm.win_sum < LowWinThresh * fm.count ELSE TRUE)
               /\ fm.count > LowWinMinCount
        jitter == Len(fm.rtt_ms) >= MinRttSamples /\ StdAbove(fm.rtt_ms, RttJitterThreshMs)
    IN [client |-> IF low THEN 2 * fm.count ELSE 0,
        network |-> (IF fm.retrans > 0 THEN 100 * fm.retrans ELSE 0)
                    + (IF fm.rto > 0 THEN 5 * fm.rto * fm.count ELSE 0)
                    + (IF jitter THEN 10 * fm.count ELSE 0),
        server |-> (IF low THEN 6 * fm.count ELSE 0)
                   + (IF fm.retrans > 0 THEN 20 * fm.retrans ELSE 0)]

(* total < 0.001 *)
ReportNoSignal(fm) ==
    LET score == ReportScores(fm)
    IN (score.client + score.network + score.server) * 100 < fm.count

calculate_probabilities(fm) ==
    LET score == ReportScores(fm)
    IN IF ReportNoSignal(fm)
       THEN [c |-> 33, n |-> 33, s |-> 34, den |-> 100]
       ELSE Normalized(score.client, score.network, score.server)

(* tcp_professional_report.py *)
ProfJitterThreshMs == 30

ProfLowWin == 200

(* compute_flow_metrics; the scores are scaled by 1000 *)
compute_flow_metrics(st) ==
    LET low == st.count > 0 /\ st.win_sum # 0 /\ st.win_sum < ProfLowWin * st.count
        jitter == st.rtt_ms # <<>> /\ StdAbove(st.rtt_ms, ProfJitterThreshMs)
        lw == IF low THEN 1 ELSE 0
        jt == IF jitter THEN 1 ELSE 0
        prob_client == 100 * lw + 180 * st.rto + 60 * st.retrans
                       + 60 * st.cont_retrans + 40 * jt
        prob_network == 40 * lw + 450 * st.rto + 150 * st.retrans
                        + 200 * st.cont_retrans + 100 * jt
        prob_server == 20 * lw + 90 * st.rto + 30 * st.retrans
                       + 20 * st.cont_retrans + 20 * jt
    IN IF prob_client + prob_network + prob_server > 0
       THEN Normalized(prob_client, prob_network, prob_server)
       ELSE [c |-> 1, n |-> 1, s |-> 1, den |-> 3]

(* analyze_tcp_dpkt_full_trend.py *)
TrendJitterThreshMs == 30

TrendLowWin == 200

(* compute_flow_prob; the scores are scaled by 1000 *)
compute_flow_prob(st) ==
    LET low == IF st.count > 0 THEN st.win_sum < TrendLowWin * st.count ELSE TRUE
        jitter == st.gaps_ms # <<>> /\ StdAbove(st.gaps_ms, TrendJitterThreshMs)
        lw == IF low THEN 1 ELSE 0
        jt == IF jitter THEN 1 ELSE 0
        prob_client == 100 * lw + 200 * st.rto + 100 * st.retrans
                       + 100 * st.cont_retrans + 50 * jt
        prob_network == 50 * lw + 400 * st.rto + 200 * st.retrans
                        + 200 * st.cont_retrans + 100 * jt
        prob_server == 50 * lw + 200 * st.rto + 100 * st.retrans
                       + 100 * st.cont_retrans + 50 * jt
    IN IF prob_client + prob_network + prob_server > 0
       THEN Normalized(prob_client, prob_network, prob_server)
       ELSE [c |-> 33, n |-> 33, s |-> 33, den |-> 100]

----------------------------------------------------------------------------
(* analyze_and_generate_report.py: analyze_pcap and main.  Flows are
   directional, keyed by <<source, destination>>.  last_seq = None is the value
   None; win_ts and payload_bytes are left out.  report holds the position of
   the run, packet_count of analyze_pcap and what main computes. *)

ReportRttMax == 10

RtoHeuristicThresh == 1

SmallWin == 200

KeepAliveLen == 1

ReportFlowMetrics ==
    [ count |-> 0, retrans |-> 0, rto_cnt |-> 0, cont_retrans |-> 0,
      small_win_cnt |-> 0, wins |-> <<>>, timestamps |-> <<>>,
      rtt_samples |-> <<>>, seen_seqs |-> {}, last_seq |-> None, max_seq |-> 0 ]

DefaultGet(d, k, default) == IF k \in DOMAIN d THEN d[k] ELSE default

(* analyze_pcap, lines 141-145 *)
ReportCount(fm, seg) ==
    [fm EXCEPT !.count = @ + 1,
               !.timestamps = Append(@, seg.ts),
               !.wins = Append(@, seg.win)]

(* mutant: the RTO test of lines 184-188 moved out of the retransmission
   branch *)
ReportRetrans_rto_dedented(fm, seg) ==
    IF seg.len > 0 THEN
        LET n == Len(fm.timestamps)
            f1 == IF seg.len <= KeepAliveLen /\ seg.is_ack THEN fm
                  ELSE IF seg.seq \in fm.seen_seqs THEN
                      [fm EXCEPT
                          !.retrans = @ + 1,
                          !.cont_retrans = IF fm.last_seq = seg.seq THEN @ + 1 ELSE @]
                  ELSE fm
            f2 == IF n > 1 /\ seg.ts - fm.timestamps[n - 1] > RtoHeuristicThresh
                  THEN [f1 EXCEPT !.rto_cnt = @ + 1]
                  ELSE f1
        IN [f2 EXCEPT !.seen_seqs = @ \cup {seg.seq},
                      !.last_seq = seg.seq,
                      !.max_seq = IF seg.seq > @ THEN seg.seq ELSE @]
    ELSE fm

(* analyze_pcap, lines 172-194: retransmission and RTO detection *)
ReportRetrans(fm, seg) ==
    IF seg.len > 0 THEN
        LET n == Len(fm.timestamps)
            f1 == IF seg.len <= KeepAliveLen /\ seg.is_ack THEN fm
                  ELSE IF seg.seq \in fm.seen_seqs THEN
                      [fm EXCEPT
                          !.retrans = @ + 1,
                          !.cont_retrans = IF fm.last_seq = seg.seq THEN @ + 1 ELSE @,
                          !.rto_cnt = IF n > 1 /\ seg.ts - fm.timestamps[n - 1]
                                                    > RtoHeuristicThresh
                                      THEN @ + 1 ELSE @]
                  ELSE fm
        IN [f1 EXCEPT !.seen_seqs = @ \cup {seg.seq},
                      !.last_seq = seg.seq,
                      !.max_seq = IF seg.seq > @ THEN seg.seq ELSE @]
    ELSE fm

(* analyze_pcap, lines 196-199 *)
ReportSmallWindow(fm, seg) ==
    IF seg.win < SmallWin /\ ~seg.is_syn /\ ~seg.is_rst
    THEN [fm EXCEPT !.small_win_cnt = @ + 1]
    ELSE fm

(* analyze_pcap: one iteration of the loop over the capture *)
AnalyzePcapStep(seg) ==
    LET flow_key == <<seg.src, seg.dst>>
        rev_flow_key == <<seg.dst, seg.src>>
        counted == DictSet(rflows, flow_key,
                           ReportCount(DefaultGet(rflows, flow_key, ReportFlowMetrics), seg))
        pending == DefaultGet(unacked_packets, rev_flow_key, EmptyDict)
        hit == seg.is_ack /\ seg.ack \in DOMAIN pending
        rtt == seg.ts - pending[seg.ack]
        sampled == IF hit /\ 0 < rtt /\ rtt < ReportRttMax
                   THEN DictSet(counted, rev_flow_key,
                                [DefaultGet(counted, rev_flow_key, ReportFlowMetrics)
                                    EXCEPT !.rtt_samples = Append(@, rtt)])
                   ELSE counted
        popped == IF hit
                  THEN [unacked_packets EXCEPT ![rev_flow_key] = DictDel(@, {seg.ack})]
                  ELSE unacked_packets
        registered == IF seg.len > 0
                      THEN DictSet(popped, flow_key,
                                   DictSet(DefaultGet(popped, flow_key, EmptyDict),
                                           seg.seq + seg.len, seg.ts))
                      ELSE popped
    IN /\ rflows' = [sampled EXCEPT
                        ![flow_key] = ReportSmallWindow(ReportRetrans(@, seg), seg)]
       /\ unacked_packets' = registered
       /\ report' = [report EXCEPT !.packet_count = @ + 1]
       /\ pkt' = <<seg>>
       /\ clock' = seg.ts

(* the statistics calculate_probabilities reads from a FlowMetrics *)
ReportStats(fm) ==
    [count |-> fm.count, win_sum |-> SeqSum(fm.wins),
     rtt_ms |-> [i \in 1 .. Len(fm.rtt_samples) |-> fm.rtt_samples[i] * MsPerSec],
     gaps_ms |-> <<>>, retrans |-> fm.retrans, rto |-> fm.rto_cnt,
     cont_retrans |-> fm.cont_retrans]

(* mutant: the directional key is taken as the session key *)
SessionKey_directional(k) == k

(* main, lines 372-380: the canonical key of a directional flow key *)
SessionKey(k) == IF EndpointLess(k[1], k[2]) THEN <<k[1], k[2]>> ELSE <<k[2], k[1]>>

(* main, lines 362-416: session count and one row per flow *)
ReportMain ==
    /\ report.phase = "parsing"
    /\ report' =
          IF rflows = EmptyDict
          THEN [report EXCEPT !.phase = "no_flows"]
          ELSE [phase |-> "done", packet_count |-> report.packet_count,
                total_tcp_sessions |-> Cardinality({SessionKey(k) : k \in DOMAIN rflows}),
                rows |-> [k \in DOMAIN rflows |->
                             calculate_probabilities(ReportStats(rflows[k]))]]
    /\ UNCHANGED <<rflows, unacked_packets, capture>>

----------------------------------------------------------------------------
(* pcap_analyzer_v9.py: ForensicEngine.  Timestamps of the captures it is
   given are whole milliseconds, so that (ts - x) * 1000.0 of the source is
   the difference itself, and avg_rtt_ms is compared as the exact fraction
   sum / len.  Fields set from TCP options only (mss, win_scale_*, sack_perm,
   timestamps) and total_bytes are left out. *)

RTO_THRESHOLD_MULTIPLIER == 2

MIN_RTO_MS == 200

FallbackBaselineMs == 100       \* baseline = 0.1 (seconds)

V9FlowMetrics ==
    [packet_count |-> 0, start_ts |-> 0, end_ts |-> 0, handshake_rtt |-> 0,
     rtt_samples |-> <<>>, retrans_fast |-> 0, retrans_rto |-> 0,
     zero_win_events |-> 0, seq_tracker |-> EmptyDict]

(* _get_flow_key: the text "a:pa-b:pb" is modelled as the pair of endpoints
   it is formatted from *)
v9_get_flow_key(t1, t2) == IF EndpointLess(t1, t2) THEN <<t1, t2>> ELSE <<t2, t1>>

(* delta > baseline * RTO_THRESHOLD_MULTIPLIER and delta > MIN_RTO_MS / 1000,
   with baseline = avg_rtt_ms() / 1000, replaced by 0.1 when it is 0 *)
V9IsRto(flow, delta) ==
    LET n == Len(flow.rtt_samples)
        total == SeqSum(flow.rtt_samples)
    IN /\ IF n = 0 \/ total = 0
          THEN delta > FallbackBaselineMs * RTO_THRESHOLD_MULTIPLIER
          ELSE delta * n > total * RTO_THRESHOLD_MULTIPLIER
       /\ delta > MIN_RTO_MS

V9Handshake(flow, seg) ==
    IF seg.is_syn /\ seg.is_ack /\ flow.packet_count >= 2
    THEN [flow EXCEPT !.handshake_rtt = seg.ts - flow.start_ts]
    ELSE flow

(* seq_tracker is keyed by seq alone, whoever sent the segment *)
V9Retransmission(flow, seg) ==
    IF seg.len > 0
    THEN IF seg.seq \in DOMAIN flow.seq_tracker
         THEN IF V9IsRto(flow, seg.ts - flow.seq_tracker[seg.seq])
              THEN [flow EXCEPT !.retrans_rto = @ + 1]
              ELSE [flow EXCEPT !.retrans_fast = @ + 1]
         ELSE [flow EXCEPT !.seq_tracker = DictSet(@, seg.seq, seg.ts)]
    ELSE flow

V9FlowControl(flow, seg) ==
    IF seg.win = 0 THEN [flow EXCEPT !.zero_win_events = @ + 1] ELSE flow

analyze_packet(flow, seg) ==
    V9FlowControl(V9Retransmission(V9Handshake(flow, seg), seg), seg)

(* one iteration of the loop of process_pcap *)
ProcessPcapStep(seg) ==
    LET key == v9_get_flow_key(seg.src, seg.dst)
        flow == DefaultGet(engine.flows, key, V9FlowMetrics)
        counted == [flow EXCEPT !.packet_count = @ + 1,
                                !.start_ts = IF @ = 0 THEN seg.ts ELSE @,
                                !.end_ts = seg.ts]
    IN /\ engine' = [flows |-> DictSet(engine.flows, key, analyze_packet(counted, seg)),
                     total_packets |-> engine.total_packets + 1]
       /\ seglog' = DictSet(seglog, key, Append(DefaultGet(seglog, key, <<>>), seg))
       /\ pkt' = <<seg>>
       /\ clock' = seg.ts

----------------------------------------------------------------------------
(* tcp_professional_report.py: main.  A stream is directional, keyed by
   <<source, destination>>; wins is kept as its sum (count is its length).
   The aggregated probabilities are sums of the exact fractions c / den. *)

ProfSmallWin == 200

ProfStream ==
    [count |-> 0, win_sum |-> 0, seq_ack_time |-> <<>>, retrans |-> 0,
     rto |-> 0, cont_retrans |-> 0, last_seq |-> None, psh_small |-> 0,
     seq_history |-> EmptyDict]

ProfIpRow ==
    [flow_count |-> 0, rto |-> 0, retrans |-> 0, cont_retrans |-> 0,
     psh_small |-> 0, c |-> 0, n |-> 0, s |-> 0, den |-> 1]

(* professional retrans / RTO tracking: no test of the payload length *)
ProfRetrans(s, seg) ==
    LET tracked == IF seg.seq \in DOMAIN s.seq_history
                   THEN [s EXCEPT !.retrans = @ + 1,
                                  !.cont_retrans = IF s.last_seq = seg.seq
                                                   THEN @ + 1 ELSE @,
                                  !.rto = @ + 1]
                   ELSE s
    IN [tracked EXCEPT !.seq_history = DictSet(@, seg.seq, seg.ts),
                       !.last_seq = seg.seq]

ProfAckTime(s, seg) ==
    IF seg.ack \in DOMAIN s.seq_history
    THEN [s EXCEPT !.seq_ack_time = Append(@, <<s.seq_history[seg.ack], seg.ts>>)]
    ELSE s

ProfWindow(s, seg) ==
    [s EXCEPT !.win_sum = @ + seg.win,
              !.count = @ + 1,
              !.psh_small = @ + B2N(0 < seg.win /\ seg.win < ProfSmallWin)]

(* one iteration of the packet loop of main *)
ProfStep(seg) ==
    LET stream_key == <<seg.src, seg.dst>>
        s == DefaultGet(prof.streams, stream_key, ProfStream)
    IN /\ prof' = [prof EXCEPT
                     !.packets = @ + 1,
                     !.streams = DictSet(@, stream_key,
                                    ProfWindow(ProfAckTime(ProfRetrans(s, seg), seg), seg))]
       /\ pkt' = <<seg>>
       /\ clock' = seg.ts

(* what compute_flow_metrics reads of a stream *)
ProfStats(s) ==
    [count |-> s.count, win_sum |-> s.win_sum,
     rtt_ms |-> [i \in 1 .. Len(s.seq_ack_time) |->
                    (s.seq_ack_time[i][2] - s.seq_ack_time[i][1]) * MsPerSec],
     gaps_ms |-> <<>>, retrans |-> s.retrans, rto |-> s.rto,
     cont_retrans |-> s.cont_retrans]

(* ip_dict[ip][...] += ... for one stream *)
(* mutant: the probabilities of the row are those of the stream added last *)
ProfAddToRow_last(row, s, metrics) ==
    [flow_count |-> row.flow_count + 1,
     rto |-> row.rto + s.rto,
     retrans |-> row.retrans + s.retrans,
     cont_retrans |-> row.cont_retrans + s.cont_retrans,
     psh_small |-> row.psh_small + s.psh_small,
     c |-> metrics.c, n |-> metrics.n, s |-> metrics.s, den |-> metrics.den]

ProfAddToRow(row, s, metrics) ==
    [flow_count |-> row.flow_count + 1,
     rto |-> row.rto + s.rto,
     retrans |-> row.retrans + s.retrans,
     cont_retrans |-> row.cont_retrans + s.cont_retrans,
     psh_small |-> row.psh_small + s.psh_small,
     c |-> row.c * metrics.den + metrics.c * row.den,
     n |-> row.n * metrics.den + metrics.n * row.den,
     s |-> row.s * metrics.den + metrics.s * row.den,
     den |-> row.den * metrics.den]

(* the row of one address: the streams with that address in the given role
   (1 = source, 2 = destination), added one after the other *)
RECURSIVE ProfIpRowOf(_, _)
ProfIpRowOf(streams, keys) ==
    IF keys = {} THEN ProfIpRow
    ELSE LET k == CHOOSE x \in keys : TRUE
         IN ProfAddToRow(ProfIpRowOf(streams, keys \ {k}), streams[k],
                         compute_flow_metrics(ProfStats(streams[k])))

ProfIpRows(streams, role) ==
    [ip \in {k[role][1] : k \in DOMAIN streams} |->
        ProfIpRowOf(streams, {k \in DOMAIN streams : k[role][1] = ip})]

(* main after the packet loop: flow rows and the two per-IP tables *)
ProfAggregate ==
    /\ prof.phase = "parsing"
    /\ prof' = [prof EXCEPT
                  !.phase = "done",
                  !.flow_rows = [k \in DOMAIN prof.streams |->
                                    compute_flow_metrics(ProfStats(prof.streams[k]))],
                  !.src_rows = ProfIpRows(prof.streams, 1),
                  !.dst_rows = ProfIpRows(prof.streams, 2)]
    /\ UNCHANGED capture

(* the orders in which `for k, s in streams.items()` can visit the keys S *)
Orders(S) ==
    {q \in [1 .. Cardinality(S) -> S] :
        \A i, j \in DOMAIN q : i # j => q[i] # q[j]}

(* the per-IP table of one role after the loop of lines 189-205 has visited
   the streams in the given order *)
RECURSIVE ProfFold(_, _, _)
ProfFold(streams, order, role) ==
    IF order = <<>> THEN EmptyDict
    ELSE LET k == order[Len(order)]
             rest == ProfFold(streams, SubSeq(order, 1, Len(order) - 1), role)
             ip == k[role][1]
         IN DictSet(rest, ip,
                    ProfAddToRow(DefaultGet(rest, ip, ProfIpRow), streams[k],
                                 compute_flow_metrics(ProfStats(streams[k]))))

(* the aggregation run once more over the same streams, visited in any order *)
ProfAggregateAgain ==
    /\ prof.phase = "done"
    /\ \E order \in Orders(DOMAIN prof.streams) :
          prof' = [prof EXCEPT !.phase = "again",
                               !.src_rows = ProfFold(prof.streams, order, 1),
                               !.dst_rows = ProfFold(prof.streams, order, 2)]
    /\ UNCHANGED capture

----------------------------------------------------------------------------
(* analyze_tcp_dpkt_full_trend.py: the module-level program.  A stream is
   directional, keyed by <<source, destination>>; wins is kept as its sum;
   seqs and win_ts, which only the plots read, are left out.  phase "fault"
   is the program ended by an uncaught exception. *)

TrendSmallWin == 200

TrendStream ==
    [count |-> 0, win_sum |-> 0, timestamps |-> <<>>, retrans |-> 0, rto |-> 0,
     cont_retrans |-> 0, last_seq |-> None, psh_small |-> 0]

update_stats(st, win, is_rto, is_retrans, seq, ts) ==
    [count |-> st.count + 1,
     win_sum |-> st.win_sum + win,
     timestamps |-> Append(st.timestamps, ts),
     retrans |-> st.retrans + B2N(is_retrans),
     rto |-> st.rto + B2N(is_rto),
     cont_retrans |-> IF is_retrans /\ st.last_seq = seq
                      THEN st.cont_retrans + 1 ELSE st.cont_retrans,
     last_seq |-> IF is_retrans THEN seq ELSE st.last_seq,
     psh_small |-> st.psh_small + B2N(win < TrendSmallWin /\ win > 0)]

(* one iteration of the packet loop *)
TrendStep(seg) ==
    LET stream_key == <<seg.src, seg.dst>>
        is_retrans == seg.seq \in DefaultGet(trend.seen_seq, stream_key, {})
        is_rto == is_retrans /\ seg.len > 0
    IN /\ trend' = [trend EXCEPT
                      !.packets = @ + 1,
                      !.seen_seq = DictSet(@, stream_key,
                                           DefaultGet(@, stream_key, {}) \cup {seg.seq}),
                      !.streams = DictSet(@, stream_key,
                                    update_stats(DefaultGet(@, stream_key, TrendStream),
                                                 seg.win, is_rto, is_retrans,
                                                 seg.seq, seg.ts))]
       /\ pkt' = <<seg>>
       /\ clock' = seg.ts

(* what compute_flow_prob reads of a stream: np.diff(timestamps) in ms *)
TrendStats(st) ==
    [count |-> st.count, win_sum |-> st.win_sum, rtt_ms |-> <<>>,
     gaps_ms |-> [i \in 1 .. Len(st.timestamps) - 1 |->
                    (st.timestamps[i + 1] - st.timestamps[i]) * MsPerSec],
     retrans |-> st.retrans, rto |-> st.rto, cont_retrans |-> st.cont_retrans]

(* the sum of the triples of the given flows, as exact fractions over one
   denominator; the sum of no flow is 0 *)
RECURSIVE TrendSum(_, _)
TrendSum(results, keys) ==
    IF keys = {} THEN [c |-> 0, n |-> 0, s |-> 0, den |-> 1]
    ELSE LET k == CHOOSE x \in keys : TRUE
             rest == TrendSum(results, keys \ {k})
             v == results[k]
         IN [c |-> rest.c * v.den + v.c * rest.den,
             n |-> rest.n * v.den + v.n * rest.den,
             s |-> rest.s * v.den + v.s * rest.den,
             den |-> rest.den * v.den]

TrendIpStats(results, role) ==
    [ip \in {k[role][1] : k \in DOMAIN results} |->
        TrendSum(results, {k \in DOMAIN results : k[role][1] = ip})]

(* the program after the packet loop: flow_results, ip_src_stats,
   ip_dst_stats, then values = total_x / total_sum, which raises
   ZeroDivisionError when total_sum is 0 *)
TrendFinish ==
    LET results == [k \in DOMAIN trend.streams |->
                        compute_flow_prob(TrendStats(trend.streams[k]))]
        total == TrendSum(results, DOMAIN results)
        total_sum == total.c + total.n + total.s
    IN /\ trend.phase = "parsing"
       /\ trend' = [trend EXCEPT
                      !.flow_results = results,
                      !.ip_src_stats = TrendIpStats(results, 1),
                      !.ip_dst_stats = TrendIpStats(results, 2),
                      !.phase = IF total_sum = 0 THEN "fault" ELSE "done",
                      !.values = IF total_sum = 0 THEN <<>>
                                 ELSE <<Normalized(total.c, total.n, total.s)>>]
       /\ UNCHANGED capture

----------------------------------------------------------------------------
(* The capture: the segments handed to _analyze_tcp *)

Ip10 == <<1, 0>>        \* "10...", sorts before "9..." as Python str
Ip9 == <<9>>

Endpoints == {<<Ip10, 1>>, <<Ip10, 2>>, <<Ip9, 1>>}

Client == <<Ip9, 1>>
Server == <<Ip10, 2>>

Segment(src, dst, seq, ack, syn, ackf, fin, rst, win, len, ts) ==
    [src |-> src, dst |-> dst, seq |-> seq, ack |-> ack,
     is_syn |-> syn, is_ack |-> ackf, is_fin |-> fin, is_rst |-> rst,
     win |-> win, len |-> len, ts |-> ts]

Gaps == {0, 1}          \* ticks between two consecutive segments

NextTs == {clock + g : g \in Gaps}

ConnPairs == {<<Client, Server>>, <<Server, Client>>}

AllPairs == {p \in Endpoints \X Endpoints : p[1] # p[2]}

(* a segment carrying payload; the ACK flag is set when ack > 0 *)
DataSegsOf(pairs, seqs, lens, acks, wins, times) ==
    {Segment(p[1], p[2], s, a, FALSE, a > 0, FALSE, FALSE, w, n, t) :
        p \in pairs, s \in seqs, n \in lens, a \in acks, w \in wins, t \in times}

DataSegs(pairs, seqs, acks, wins, times) ==
    DataSegsOf(pairs, seqs, {1}, acks, wins, times)

(* a bare acknowledgment *)
AckSegs(pairs, acks, wins, times) ==
    {Segment(p[1], p[2], 1, a, FALSE, TRUE, FALSE, FALSE, w, 0, t) :
        p \in pairs, a \in acks, w \in wins, t \in times}

(* SYN (ack = 0) and SYN-ACK (ack > 0) *)
SynSegs(pairs, acks, wins, times) ==
    {Segment(p[1], p[2], 1, a, TRUE, a > 0, FALSE, FALSE, w, 0, t) :
        p \in pairs, a \in acks, w \in wins, t \in times}

(* FIN-ACK *)
FinSegs(pairs, wins, times) ==
    {Segment(p[1], p[2], 2, 3, FALSE, TRUE, TRUE, FALSE, w, 0, t) :
        p \in pairs, w \in wins, t \in times}

(* RST, with or without the ACK flag *)
RstSegs(pairs, acks, wins, times) ==
    {Segment(p[1], p[2], 2, a, FALSE, a > 0, FALSE, TRUE, w, 0, t) :
        p \in pairs, a \in acks, w \in wins, t \in times}

PaInit ==
    /\ flows = EmptyDict
    /\ tcp_count = 0
    /\ global_syn = 0
    /\ global_syn_ack = 0
    /\ global_fin = 0
    /\ global_rst = 0
    /\ global_zero_window = 0
    /\ pkt = <<>>
    /\ clock = 0

Idle == [phase |-> "idle", seq |-> 0, len |-> 0, peer |-> 0, t |-> <<>>]

V4Init ==
    /\ state = GlobalState
    /\ seqlog = EmptyDict

NoStats ==
    [count |-> 0, win_sum |-> 0, rtt_ms |-> <<>>, gaps_ms |-> <<>>,
     retrans |-> 0, rto |-> 0, cont_retrans |-> 0]

NoDiag == [by |-> "none", c |-> 0, n |-> 0, s |-> 0, den |-> 1]

ScoreIdle == stats = NoStats /\ diag = NoDiag

ReportInit ==
    /\ rflows = EmptyDict
    /\ unacked_packets = EmptyDict
    /\ report = [phase |-> "parsing", packet_count |-> 0,
                 total_tcp_sessions |-> 0, rows |-> EmptyDict]

EngineInit == engine = [flows |-> EmptyDict, total_packets |-> 0]

ProfInit ==
    prof = [phase |-> "parsing", packets |-> 0, streams |-> EmptyDict,
            flow_rows |-> EmptyDict, src_rows |-> EmptyDict,
            dst_rows |-> EmptyDict]

TrendInit ==
    trend = [phase |-> "parsing", packets |-> 0, streams |-> EmptyDict,
             seen_seq |-> EmptyDict, flow_results |-> EmptyDict,
             ip_src_stats |-> EmptyDict, ip_dst_stats |-> EmptyDict,
             values |-> <<>>]

----------------------------------------------------------------------------
(* wal_rename/wal_rename_v2.py                                             *)
(*                                                                         *)
(* A file name is the sequence of the code points of its characters, so    *)
(* StrLess is the order sorted() puts names in.  A file is the sequence of *)
(* its first bytes (no more than 24 are ever read).  An unsigned integer   *)
(* unpacked from a header is the sequence of its hexadecimal digits        *)
(* (0..15), most significant first: xlp_tli has 32 bits and xlp_pageaddr   *)
(* 64.  wal.dir holds the regular files of wal_dir; the two dot            *)
(* directories of BackupManager are not regular files and are left out,    *)
(* except for in_progress.json, which is wal.state_file.                   *)

XLOG_SEG_SIZE == 16 * 1024 * 1024

XLR_MAGIC == 53345

(* the result None of parse_wal_file; a result dict r is <<r>> *)
NoResult == <<>>

(* struct.unpack("<H", b)[0] *)
UnpackH(b) == b[1] + 256 * b[2]

(* struct.unpack("<I", b)[0] and struct.unpack("<Q", b)[0]: little-endian *)
RECURSIVE UnpackDigits(_)
UnpackDigits(b) ==
    IF b = <<>> THEN <<>>
    ELSE UnpackDigits(Tail(b)) \o <<Head(b) \div 16, Head(b) % 16>>

(* n // d and n % d by long division, n a digit sequence, 0 < d < 2^27 *)
RECURSIVE DivMod(_, _, _)
DivMod(n, d, r) ==
    IF n = <<>> THEN [q |-> <<>>, r |-> r]
    ELSE LET cur == r * 16 + Head(n)
             rest == DivMod(Tail(n), d, cur % d)
         IN  [q |-> <<cur \div d>> \o rest.q, r |-> rest.r]

FloorDiv(n, d) == DivMod(n, d, 0).q

Mod(n, d) == DivMod(n, d, 0).r

RECURSIVE StripZeros(_)
StripZeros(n) ==
    IF Len(n) > 1 /\ Head(n) = 0 THEN StripZeros(Tail(n)) ELSE n

(* the character "0".."9", "A".."F" of one digit, format type X *)
HexChar(d) == IF d < 10 THEN 48 + d ELSE 55 + d

RECURSIVE ZeroPad(_, _)
ZeroPad(s, width) == IF Len(s) >= width THEN s ELSE ZeroPad(<<48>> \o s, width)

(* f"{n:08X}": at least eight characters, never fewer digits than n has *)
Format08X(n) ==
    LET digits == StripZeros(n)
    IN  ZeroPad([i \in 1..Len(digits) |-> HexChar(digits[i])], 8)

validate_header(header) ==
    /\ Len(header) >= 24
    /\ UnpackH(SubSeq(header, 1, 2)) = XLR_MAGIC
    /\ UnpackH(SubSeq(header, 3, 4)) \in {3, 4, 11, 12, 13, 14, 15}

check_file_integrity(file) == Len(file) >= 24

parse_wal_file(dir, file_path, segment_size) ==
    IF file_path \notin DOMAIN dir THEN NoResult
    ELSE
        LET header == SubSeq(dir[file_path], 1, 24)
        IN  IF ~validate_header(dir[file_path]) THEN NoResult
            ELSE IF segment_size = 0 THEN NoResult     \* ZeroDivisionError
            ELSE
                LET xlp_tli == UnpackDigits(SubSeq(header, 5, 8))
                    xlp_pageaddr == UnpackDigits(SubSeq(header, 9, 16))
                    logSegNo == FloorDiv(xlp_pageaddr, segment_size)
                    log_id == FloorDiv(logSegNo, 256)
                    seg_id == Mod(logSegNo, 256)
                IN  << [new_name |-> Format08X(xlp_tli) \o Format08X(log_id)
                                     \o Format08X(<<seg_id \div 16, seg_id % 16>>),
                        xlp_tli |-> xlp_tli,
                        xlp_pageaddr |-> xlp_pageaddr,
                        logSegNo |-> logSegNo,
                        valid |-> check_file_integrity(dir[file_path])] >>

(* os.rename on a POSIX file system: an existing destination is replaced *)
os_rename(dir, old, new) ==
    [n \in ((DOMAIN dir) \ {old}) \cup {new} |-> IF n = new THEN dir[old] ELSE dir[n]]

(* "wal_rename.log" and "wal_rename_error.log" *)
LogName == <<119, 97, 108, 95, 114, 101, 110, 97, 109, 101, 46, 108, 111, 103>>

ErrorLogName == <<119, 97, 108, 95, 114, 101, 110, 97, 109, 101, 95,
                  101, 114, 114, 111, 114, 46, 108, 111, 103>>

(* the log begins with the date of its first line, "2..." *)
LogText == [i \in 1..24 |-> 50]

(* StructuredLogger.__init__ opens both logs inside wal_dir and WALRenamer
   writes the start-up line; a log that exists is appended to *)
StructuredLogger(dir) ==
    [n \in (DOMAIN dir) \cup {LogName, ErrorLogName} |->
        IF n \in DOMAIN dir THEN dir[n]
        ELSE IF n = LogName THEN LogText ELSE <<>>]

WalStats ==
    [total_files |-> 0, renamed |-> 0, skipped |-> 0, errors |-> 0,
     already_correct |-> 0]

(* WALRenamer.__init__: a new logger, a new BackupManager whose operations
   list is empty, zeroed statistics; in_progress.json is left as it is *)
WALRenamer(w, segment_size, dry_run) ==
    [w EXCEPT !.dir = StructuredLogger(w.dir),
              !.segment_size = segment_size,
              !.dry_run = dry_run,
              !.operations = <<>>,
              !.stats = WalStats,
              !.files = <<>>,
              !.runs = @ + 1]

save_state(w) == [w EXCEPT !.state_file = w.operations]

(* the mutant: the operations undone in the order they were recorded *)
RECURSIVE RollbackOps_in_order(_, _)
RollbackOps_in_order(dir, ops) ==
    IF ops = <<>> THEN dir
    ELSE
        LET op == Head(ops)
            undone == IF op.new_name \in DOMAIN dir
                      THEN os_rename(dir, op.new_name, op.old_name)
                      ELSE dir
        IN  RollbackOps_in_order(undone, Tail(ops))

(* BackupManager.rollback, the loop over reversed(self.operations) *)
RECURSIVE RollbackOps(_, _)
RollbackOps(dir, ops) ==
    IF ops = <<>> THEN dir
    ELSE
        LET op == ops[Len(ops)]
            undone == IF op.new_name \in DOMAIN dir
                      THEN os_rename(dir, op.new_name, op.old_name)
                      ELSE dir
        IN  RollbackOps(undone, SubSeq(ops, 1, Len(ops) - 1))

rollback(w) ==
    IF w.operations = <<>> THEN w
    ELSE save_state([w EXCEPT !.dir = RollbackOps(w.dir, w.operations),
                              !.operations = <<>>])

(* the mutant: the preview test placed after the rename *)
rename_file_preview_late(w, filename, new_name) ==
    IF new_name \in DOMAIN w.dir
    THEN [w EXCEPT !.stats.skipped = @ + 1]
    ELSE
        LET moved == [w EXCEPT !.dir = os_rename(w.dir, filename, new_name)]
        IN  IF w.dry_run THEN moved
            ELSE [moved EXCEPT !.operations = Append(@, [old_name |-> filename,
                                                         new_name |-> new_name]),
                               !.stats.renamed = @ + 1]

(* the mutant: no test of the target before os.rename *)
rename_file_unguarded(w, filename, new_name) ==
    IF w.dry_run THEN w
    ELSE [w EXCEPT !.dir = os_rename(w.dir, filename, new_name),
                   !.operations = Append(@, [old_name |-> filename,
                                             new_name |-> new_name]),
                   !.stats.renamed = @ + 1]

(* the mutant: an occupied target is passed over without being counted *)
rename_file_skip_uncounted(w, filename, new_name) ==
    IF w.dry_run \/ new_name \in DOMAIN w.dir THEN w
    ELSE [w EXCEPT !.dir = os_rename(w.dir, filename, new_name),
                   !.operations = Append(@, [old_name |-> filename,
                                             new_name |-> new_name]),
                   !.stats.renamed = @ + 1]

rename_file(w, filename, new_name) ==
    IF w.dry_run THEN w
    ELSE IF new_name \in DOMAIN w.dir
    THEN [w EXCEPT !.stats.skipped = @ + 1]
    ELSE [w EXCEPT !.dir = os_rename(w.dir, filename, new_name),
                   !.operations = Append(@, [old_name |-> filename,
                                             new_name |-> new_name]),
                   !.stats.renamed = @ + 1]

RECURSIVE Sorted(_)
Sorted(S) ==
    IF S = {} THEN <<>>
    ELSE LET m == CHOOSE x \in S : \A y \in S \ {x} : StrLess(x, y)
         IN  <<m>> \o Sorted(S \ {m})

(* process_directory up to the loop: the sorted listing of the regular files;
   listed remembers the directory as it was listed *)
ListFiles(w) ==
    [w EXCEPT !.files = Sorted(DOMAIN w.dir),
              !.listed = w.dir,
              !.stats.total_files = Cardinality(DOMAIN w.dir),
              !.phase = "scan"]

(* one iteration of the loop of process_directory *)
ProcessFile(w, filename) ==
    IF Head(filename) = 46 THEN w                       \* startswith('.')
    ELSE
        LET parse_result == parse_wal_file(w.dir, filename, w.segment_size)
        IN  IF parse_result = NoResult
            THEN [w EXCEPT !.stats.errors = @ + 1]
            ELSE IF filename = parse_result[1].new_name
            THEN [w EXCEPT !.stats.already_correct = @ + 1]
            ELSE rename_file(w, filename, parse_result[1].new_name)

(* what the invocation before this one was: nothing, or its mode, its
   options and the counters of its summary *)
LastRun(w) ==
    IF w.phase = "idle" THEN <<>>
    ELSE << [mode |-> w.mode, dry_run |-> w.dry_run,
             segment_size |-> w.segment_size,
             renamed |-> w.stats.renamed, skipped |-> w.stats.skipped] >>

(* main without --rollback, to the head of the loop *)
WalMain(segment_size, dry_run) ==
    /\ wal.phase \in {"idle", "exited"}
    /\ wal.runs < MaxRuns
    /\ wal' = [ListFiles(WALRenamer(wal, segment_size, dry_run))
                   EXCEPT !.mode = "rename", !.last = LastRun(wal)]

WalLoop ==
    /\ wal.phase = "scan"
    /\ wal.files # <<>>
    /\ wal' = [ProcessFile(wal, Head(wal.files)) EXCEPT !.files = Tail(wal.files)]

(* the end of process_directory: save_state, the report, the summary *)
WalExit ==
    /\ wal.phase = "scan"
    /\ wal.files = <<>>
    /\ wal' = [save_state(wal) EXCEPT !.phase = "exited"]

(* main with --rollback *)
WalMainRollback ==
    /\ wal.phase \in {"idle", "exited"}
    /\ wal.runs < MaxRuns
    /\ wal' = [rollback(WALRenamer(wal, XLOG_SEG_SIZE, FALSE))
                   EXCEPT !.phase = "exited", !.mode = "rollback",
                          !.last = LastRun(wal)]

(* rollback_changes on the WALRenamer that did the renaming *)
WalRollbackChanges ==
    /\ wal.phase = "exited"
    /\ wal.mode = "rename"
    /\ wal' = [rollback(wal) EXCEPT !.mode = "rolled back"]

WalIdle(dir) ==
    [dir |-> dir, segment_size |-> XLOG_SEG_SIZE, dry_run |-> FALSE,
     stats |-> WalStats, operations |-> <<>>, state_file |-> <<>>,
     files |-> <<>>, phase |-> "idle", mode |-> "rename", runs |-> 0,
     listed |-> dir, last |-> <<>>]

----------------------------------------------------------------------------
(* frame-analysis-examples/pcap_analyzer_v10.py: ForensicsEngine.           *)
(* Timestamps are whole milliseconds, so (ts - sent_ts) * 1000.0 is the     *)
(* difference itself and a span in seconds is the difference / MsPerSec.    *)
(* next_seq and unacked_segments are indexed by direction + 1.  The byte    *)
(* totals, the capture span and the negotiated options are left out: no     *)
(* modelled step reads them.                                                *)

StreamMetrics ==
    [start_ts |-> 0, last_ts |-> 0, packets |-> 0,
     syn_seen |-> FALSE, syn_ack_seen |-> FALSE, fin_seen |-> FALSE,
     rst_seen |-> FALSE, rtt_samples |-> <<>>,
     retrans_fast |-> 0, retrans_rto |-> 0, zero_wins |-> 0,
     next_seq |-> <<0, 0>>, unacked_segments |-> <<EmptyDict, EmptyDict>>]

(* the normalised key and the direction of a segment *)
V10FlowKey(src, dst) ==
    IF StrLess(src[1], dst[1]) THEN [key |-> <<src, dst>>, direction |-> 0]
    ELSE IF StrLess(dst[1], src[1]) THEN [key |-> <<dst, src>>, direction |-> 1]
    ELSE IF src[2] < dst[2] THEN [key |-> <<src, dst>>, direction |-> 0]
    ELSE [key |-> <<dst, src>>, direction |-> 1]

V10Flags(flow, seg) ==
    [flow EXCEPT !.syn_ack_seen = @ \/ (seg.is_syn /\ seg.is_ack),
                 !.syn_seen = @ \/ (seg.is_syn /\ ~seg.is_ack),
                 !.rst_seen = @ \/ seg.is_rst,
                 !.fin_seen = @ \/ seg.is_fin]

V10Window(flow, seg) ==
    IF seg.win = 0 /\ ~seg.is_rst THEN [flow EXCEPT !.zero_wins = @ + 1] ELSE flow

(* avg_rtt > 0 and (ts - flow.start_ts) > (avg_rtt * 2): the left side is in
   seconds, the average in milliseconds *)
V10IsRto(flow, ts) ==
    LET n == Len(flow.rtt_samples)
        total == SeqSum(flow.rtt_samples)
    IN  /\ n > 0
        /\ total > 0
        /\ (ts - flow.start_ts) * n > total * 2 * MsPerSec

V10Retransmission(flow, direction, seg) ==
    IF seg.len > 0
    THEN LET expected == flow.next_seq[direction + 1]
         IN  IF expected # 0 /\ seg.seq < expected
             THEN IF V10IsRto(flow, seg.ts)
                  THEN [flow EXCEPT !.retrans_rto = @ + 1]
                  ELSE [flow EXCEPT !.retrans_fast = @ + 1]
             ELSE [flow EXCEPT
                     !.next_seq[direction + 1] = seg.seq + seg.len,
                     !.unacked_segments[direction + 1] =
                         DictSet(@, seg.seq + seg.len, seg.ts)]
    ELSE flow

V10Rtt(flow, direction, seg) ==
    LET rev_dir == 1 - direction
        pending == flow.unacked_segments[rev_dir + 1]
    IN  IF seg.is_ack /\ seg.ack \in DOMAIN pending
        THEN LET rtt == seg.ts - pending[seg.ack]
                 sampled == IF rtt > 0 /\ rtt < 5 * MsPerSec
                            THEN [flow EXCEPT !.rtt_samples = Append(@, rtt)]
                            ELSE flow
             IN  [sampled EXCEPT !.unacked_segments[rev_dir + 1] =
                                     DictDel(pending, {seg.ack})]
        ELSE flow

(* ForensicsEngine.analyze_packet on a TCP segment *)
ForensicsAnalyzePacket(seg) ==
    LET fk == V10FlowKey(seg.src, seg.dst)
        created == IF fk.key \in DOMAIN forensics.streams
                   THEN forensics.streams[fk.key]
                   ELSE [StreamMetrics EXCEPT !.start_ts = seg.ts]
        counted == [created EXCEPT !.last_ts = seg.ts, !.packets = @ + 1]
        flow == V10Rtt(V10Retransmission(V10Window(V10Flags(counted, seg), seg),
                                         fk.direction, seg),
                       fk.direction, seg)
    IN  /\ forensics' = [streams |-> DictSet(forensics.streams, fk.key, flow),
                         global_packets |-> forensics.global_packets + 1]
        /\ seglog' = DictSet(seglog, fk.key,
                             Append(DefaultGet(seglog, fk.key, <<>>), seg))
        /\ pkt' = <<seg>>
        /\ clock' = seg.ts

ForensicsInit == forensics = [streams |-> EmptyDict, global_packets |-> 0]

----------------------------------------------------------------------------
(* frame-analysis-examples/pcap_analyzer_v8.py: TCPAnalyzer, TCPFlow and    *)
(* StreamMetrics.  Timestamps are whole milliseconds, so (ts - sent_ts) *   *)
(* 1000.0 is the difference itself.  The byte totals, the window samples    *)
(* and the time series are left out: no modelled step reads them.           *)

V8StreamMetrics ==
    [packet_count |-> 0, retransmissions |-> 0, out_of_order |-> 0,
     highest_seq |-> 0, next_expected_seq |-> 0, is_first_packet |-> TRUE,
     inflight_packets |-> EmptyDict]

Max2(a, b) == IF a >= b THEN a ELSE b

(* StreamMetrics.update *)
V8Update(stream, seg) ==
    LET counted == [stream EXCEPT !.packet_count = @ + 1]
    IN  IF stream.is_first_packet
        THEN [counted EXCEPT !.highest_seq = seg.seq,
                             !.next_expected_seq = seg.seq + seg.len,
                             !.is_first_packet = FALSE]
        ELSE IF seg.seq < stream.highest_seq
        THEN [counted EXCEPT !.retransmissions = @ + 1]
        ELSE IF seg.seq > stream.next_expected_seq
        THEN [counted EXCEPT !.out_of_order = @ + 1,
                             !.highest_seq = Max2(@, seg.seq),
                             !.next_expected_seq = Max2(@, seg.seq + seg.len)]
        ELSE [counted EXCEPT !.highest_seq = Max2(@, seg.seq),
                             !.next_expected_seq = Max2(@, seg.seq + seg.len)]

(* TCPFlow.__init__ *)
V8TCPFlow(seg) ==
    [src_ip |-> seg.src[1], src_port |-> seg.src[2],
     dst_ip |-> seg.dst[1], dst_port |-> seg.dst[2],
     start_ts |-> seg.ts, last_ts |-> seg.ts,
     syn_seen |-> FALSE, syn_ack_seen |-> FALSE, fin_count |-> 0,
     rst_count |-> 0, handshake_complete |-> FALSE, rtt_samples |-> <<>>,
     zero_window_events |-> 0, fwd |-> V8StreamMetrics, bwd |-> V8StreamMetrics]

(* is_forward = (src_ip == self.src_ip) *)
V8IsForward(flow, seg) == seg.src[1] = flow.src_ip

(* add_packet, step 1: the state machine *)
V8StateMachine(flow, seg) ==
    LET handshake ==
            IF seg.is_syn /\ seg.is_ack
            THEN [flow EXCEPT
                    !.syn_ack_seen = TRUE,
                    !.rtt_samples =
                        IF flow.syn_seen /\ Len(@) = 0 /\ seg.ts - flow.start_ts > 0
                        THEN Append(@, seg.ts - flow.start_ts) ELSE @]
            ELSE IF seg.is_syn THEN [flow EXCEPT !.syn_seen = TRUE]
            ELSE flow
        counted == [handshake EXCEPT
                      !.fin_count = IF seg.is_fin THEN @ + 1 ELSE @,
                      !.rst_count = IF seg.is_rst THEN @ + 1 ELSE @]
    IN  [counted EXCEPT !.handshake_complete =
                            @ \/ (counted.syn_seen /\ counted.syn_ack_seen)]

(* add_packet, step 2: an ACK is matched in the other stream *)
V8Rtt(flow, is_forward, seg) ==
    LET other == IF is_forward THEN flow.bwd ELSE flow.fwd
    IN  IF seg.is_ack /\ seg.ack \in DOMAIN other.inflight_packets
        THEN LET rtt == seg.ts - other.inflight_packets[seg.ack]
                 popped == DictDel(other.inflight_packets, {seg.ack})
                 sampled == IF rtt > 0 /\ rtt < 5 * MsPerSec
                            THEN [flow EXCEPT !.rtt_samples = Append(@, rtt)]
                            ELSE flow
             IN  IF is_forward
                 THEN [sampled EXCEPT !.bwd.inflight_packets = popped]
                 ELSE [sampled EXCEPT !.fwd.inflight_packets = popped]
        ELSE flow

(* add_packet, steps 3 to 5: the segment is registered, the window tested
   and the metrics of its stream updated *)
V8Stream(flow, is_forward, seg) ==
    LET stream == IF is_forward THEN flow.fwd ELSE flow.bwd
        registered ==
            IF seg.len > 0 /\ ~seg.is_rst /\ ~seg.is_syn
            THEN [stream EXCEPT !.inflight_packets =
                                    DictSet(@, seg.seq + seg.len, seg.ts)]
            ELSE stream
        updated == V8Update(registered, seg)
        windowed == IF seg.win = 0 /\ ~seg.is_rst
                    THEN [flow EXCEPT !.zero_window_events = @ + 1]
                    ELSE flow
    IN  IF is_forward THEN [windowed EXCEPT !.fwd = updated]
        ELSE [windowed EXCEPT !.bwd = updated]

add_packet(flow, seg) ==
    LET is_forward == V8IsForward(flow, seg)
        timed == [flow EXCEPT !.last_ts = seg.ts]
    IN  V8Stream(V8Rtt(V8StateMachine(timed, seg), is_forward, seg),
                 is_forward, seg)

(* tuple(sorted([s, d])) *)
V8FlowKey(src, dst) ==
    IF StrLess(src[1], dst[1]) \/ (src[1] = dst[1] /\ src[2] <= dst[2])
    THEN <<src, dst>> ELSE <<dst, src>>

(* one turn of main's loop on a TCP segment: TCPAnalyzer.process_packet *)
process_packet(seg) ==
    LET key == V8FlowKey(seg.src, seg.dst)
        flow == IF key \in DOMAIN tcp_engine.flows THEN tcp_engine.flows[key]
                ELSE V8TCPFlow(seg)
    IN  /\ tcp_engine' =
              [flows |-> DictSet(tcp_engine.flows, key, add_packet(flow, seg)),
               syn_count |-> tcp_engine.syn_count
                               + (IF seg.is_syn /\ ~seg.is_ack THEN 1 ELSE 0),
               syn_ack_count |-> tcp_engine.syn_ack_count
                               + (IF seg.is_syn /\ seg.is_ack THEN 1 ELSE 0),
               fin_count |-> tcp_engine.fin_count + (IF seg.is_fin THEN 1 ELSE 0),
               rst_count |-> tcp_engine.rst_count + (IF seg.is_rst THEN 1 ELSE 0),
               packet_count |-> tcp_engine.packet_count + 1]
        /\ pkt' = <<seg>>
        /\ clock' = seg.ts

TcpEngineInit ==
    tcp_engine = [flows |-> EmptyDict, syn_count |-> 0, syn_ack_count |-> 0,
                  fin_count |-> 0, rst_count |-> 0, packet_count |-> 0]

ToolInit == wal = WalIdle(EmptyDict) /\ ForensicsInit /\ TcpEngineInit

OtherInit == EngineInit /\ ProfInit /\ TrendInit /\ seglog = EmptyDict

Init ==
    PaInit /\ script = Idle /\ V4Init /\ ScoreIdle /\ ReportInit /\ OtherInit
    /\ ToolInit

(* one more record of the capture, taken from the set segs *)
Recv(segs) ==
    \E seg \in segs :
        /\ tcp_count < MaxPkts
        /\ AnalyzeTcp(seg)
        /\ UNCHANGED nonPaVars

(* Spec: one connection, both directions; sequence, ACK and RTT variety *)
RecvData == Recv(DataSegs(ConnPairs, {1, 2}, {0, 3}, {512}, NextTs))

RecvAck == Recv(AckSegs(ConnPairs, {2, 3}, {512}, NextTs))

RecvSyn == Recv(SynSegs(ConnPairs, {0, 2}, {512}, NextTs))

RecvFin == Recv(FinSegs(ConnPairs, {512}, NextTs))

Next == RecvData \/ RecvAck \/ RecvSyn \/ RecvFin

Spec == Init /\ [][Next]_vars

(* SpecWindow: one connection; window and flag variety *)
Tick == {clock + 1}

WinData == Recv(DataSegs(ConnPairs, {1}, {0}, {0, 512}, Tick))

WinAck == Recv(AckSegs(ConnPairs, {2}, {0, 512}, Tick))

WinSyn == Recv(SynSegs(ConnPairs, {0}, {0, 512}, Tick))

WinFin == Recv(FinSegs(ConnPairs, {0, 512}, Tick))

WinRst == Recv(RstSegs(ConnPairs, {0, 3}, {0, 512}, Tick))

NextWindow == WinData \/ WinAck \/ WinSyn \/ WinFin \/ WinRst

SpecWindow == Init /\ [][NextWindow]_vars

(* SpecFlows: every pair of endpoints, both directions *)
FlowsData == Recv(DataSegs(AllPairs, {1, 2}, {0}, {512}, Tick))

FlowsAck == Recv(AckSegs(AllPairs, {2}, {0, 512}, Tick))

NextFlows == FlowsData \/ FlowsAck

SpecFlows == Init /\ [][NextFlows]_vars

(* a scripted segment: processed like any other record of the capture *)
Scripted(seg, next_script) ==
    /\ AnalyzeTcp(seg)
    /\ script' = next_script
    /\ UNCHANGED <<v4State, scoreState, reportState, otherRuns>>

(* SpecKarn: a payload segment, copies of it, and the ACKs answering them.
   script.t = <<time of the first transmission, time of the first ACK>> *)
KarnData ==
    \E s \in {1, 2}, n \in {1, 2}, t \in {1, 2}, w \in {0, 512} :
        /\ script.phase = "idle"
        /\ Scripted(Segment(Client, Server, s, 0, FALSE, FALSE, FALSE, FALSE, w, n, t),
                    [script EXCEPT !.phase = "data", !.seq = s, !.len = n, !.t = <<t>>])

KarnCopy(from, to) ==
    \E t \in NextTs :
        /\ script.phase = from
        /\ Scripted(Segment(Client, Server, script.seq, 0, FALSE, FALSE, FALSE,
                            FALSE, 512, script.len, t),
                    [script EXCEPT !.phase = to])

KarnCopyBeforeAck == KarnCopy("data", "copied")

KarnCopyAfterAck == KarnCopy("acked", "copied_after")

KarnAck ==
    \E t \in {clock + 1, clock + 2} :
        /\ script.phase \in {"data", "copied"}
        /\ Scripted(Segment(Server, Client, 1, script.seq + script.len, FALSE, TRUE,
                            FALSE, FALSE, 512, 0, t),
                    [script EXCEPT !.phase = "acked", !.t = Append(@, t)])

KarnAckAgain ==
    \E t \in {clock + 1, clock + 2} :
        /\ script.phase = "copied_after"
        /\ Scripted(Segment(Server, Client, 1, script.seq + script.len, FALSE, TRUE,
                            FALSE, FALSE, 512, 0, t),
                    [script EXCEPT !.phase = "acked_again"])

NextKarn ==
    KarnData \/ KarnCopyBeforeAck \/ KarnAck \/ KarnCopyAfterAck \/ KarnAckAgain

SpecKarn == Init /\ [][NextKarn]_vars

(* SpecHandshake: SYN, SYN-ACK, one payload segment, the ACK for it.
   script.t = the four timestamps *)
HsSyn ==
    \E x \in {1, 7}, t \in {0, 1} :
        /\ script.phase = "idle"
        /\ Scripted(Segment(Client, Server, x, 0, TRUE, FALSE, FALSE, FALSE, 512, 0, t),
                    [script EXCEPT !.phase = "syn", !.seq = x, !.t = <<t>>])

HsSynAck ==
    \E y \in {1, 5}, t \in {clock + 1, clock + 2} :
        /\ script.phase = "syn"
        /\ Scripted(Segment(Server, Client, y, script.seq + 1, TRUE, TRUE, FALSE,
                            FALSE, 512, 0, t),
                    [script EXCEPT !.phase = "synack", !.peer = y, !.t = Append(@, t)])

HsData ==
    \E n \in {1, 2}, ackf \in BOOLEAN, t \in {clock + 1, clock + 2} :
        /\ script.phase = "synack"
        /\ Scripted(Segment(Client, Server, script.seq + 1,
                            IF ackf THEN script.peer + 1 ELSE 0,
                            FALSE, ackf, FALSE, FALSE, 512, n, t),
                    [script EXCEPT !.phase = "data", !.len = n, !.t = Append(@, t)])

HsAck ==
    \E t \in {clock + 1, clock + 2} :
        /\ script.phase = "data"
        /\ Scripted(Segment(Server, Client, script.peer + 1,
                            script.seq + 1 + script.len,
                            FALSE, TRUE, FALSE, FALSE, 512, 0, t),
                    [script EXCEPT !.phase = "acked", !.t = Append(@, t)])

NextHandshake == HsSyn \/ HsSynAck \/ HsData \/ HsAck

SpecHandshake == Init /\ [][NextHandshake]_vars

(* SpecV4: pcap_analyzer_v4.py over one connection, both directions *)
MaxV4Pkts == 4

V4Recv(segs) ==
    \E seg \in segs :
        /\ state.total_packets < MaxV4Pkts
        /\ ProcessPacket(seg)
        /\ UNCHANGED <<paState, script, scoreState, reportState, otherRuns>>

V4Data == V4Recv(DataSegsOf(ConnPairs, {100, 200, 300}, {100}, {0}, {512}, Tick))

V4Ack == V4Recv(AckSegs(ConnPairs, {200, 300}, {512}, Tick))

V4Rst == V4Recv(RstSegs({<<Client, Server>>}, {0}, {0}, Tick))

NextV4 == V4Data \/ V4Ack \/ V4Rst

SpecV4 == Init /\ [][NextV4]_vars

(* SpecScore: the three scorers applied to the statistics of one flow that
   has at least one packet *)
MaxRetrans == 1

Counts == {1, 2, 11}

Min(a, b) == IF a < b THEN a ELSE b

FlowStats ==
    { [count |-> k, win_sum |-> w * k, rtt_ms |-> r, gaps_ms |-> g,
       retrans |-> x, rto |-> y, cont_retrans |-> z] :
        k \in Counts, w \in {0, 150, 300, 512},
        r \in {<<>>, <<10, 20>>, <<10, 10, 10>>, <<10, 90, 10>>, <<10, 200, 10>>},
        g \in {<<>>, <<10, 10>>, <<200, 10>>},
        x \in 0 .. MaxRetrans, y \in 0 .. MaxRetrans, z \in 0 .. MaxRetrans }

ReachableStats ==
    { st \in FlowStats :
        /\ st.retrans <= st.count - 1
        /\ st.rto <= st.retrans
        /\ st.cont_retrans <= st.retrans
        /\ Len(st.gaps_ms) <= st.count - 1
        /\ Len(st.rtt_ms) <= st.count * 2 }

InitScore ==
    /\ PaInit /\ script = Idle /\ V4Init /\ ReportInit /\ OtherInit /\ ToolInit
    /\ stats \in ReachableStats
    /\ diag = NoDiag

Score(by, triple) ==
    /\ diag' = [by |-> by, c |-> triple.c, n |-> triple.n, s |-> triple.s,
                den |-> triple.den]
    /\ UNCHANGED <<paState, capture, script, v4State, reportState, stats,
                   otherRuns>>

ScoreReport == Score("calculate_probabilities", calculate_probabilities(stats))

ScoreProfessional == Score("compute_flow_metrics", compute_flow_metrics(stats))

ScoreTrend == Score("compute_flow_prob", compute_flow_prob(stats))

NextScore == ScoreReport \/ ScoreProfessional \/ ScoreTrend

SpecScore == InitScore /\ [][NextScore]_vars

(* SpecReport: analyze_and_generate_report.py over every ordered pair of
   endpoints, a connection of an endpoint with itself included *)
MaxReportPkts == 3

ReportRecv(segs) ==
    \E seg \in segs :
        /\ report.phase = "parsing"
        /\ report.packet_count < MaxReportPkts
        /\ AnalyzePcapStep(seg)
        /\ seglog' = DictSet(seglog, <<seg.src, seg.dst>>,
                             Append(DefaultGet(seglog, <<seg.src, seg.dst>>, <<>>), seg))
        /\ UNCHANGED <<paState, script, v4State, scoreState, engine, prof, trend, toolRuns>>

ReportData == ReportRecv(DataSegsOf(Endpoints \X Endpoints, {1}, {2}, {0}, {512}, Tick))

ReportAck == ReportRecv(AckSegs(Endpoints \X Endpoints, {3}, {100}, Tick))

ReportDone ==
    ReportMain /\ UNCHANGED <<paState, script, v4State, scoreState, otherRuns>>

NextReport == ReportData \/ ReportAck \/ ReportDone

SpecReport == Init /\ [][NextReport]_vars

(* SpecV9: pcap_analyzer_v9.py over one connection, both directions; the
   segments are 100 ms or 300 ms apart *)
MaxV9Pkts == 3

V9Times == {clock + 100, clock + 300}

V9Recv(segs) ==
    \E seg \in segs :
        /\ engine.total_packets < MaxV9Pkts
        /\ ProcessPcapStep(seg)
        /\ UNCHANGED <<paState, script, v4State, scoreState, reportState,
                       prof, trend, toolRuns>>

V9Data == V9Recv(DataSegsOf(ConnPairs, {100, 200}, {100}, {0}, {512}, V9Times))

V9SynAck == V9Recv(SynSegs(ConnPairs, {2}, {512}, V9Times))

V9Ack == V9Recv(AckSegs({<<Server, Client>>}, {200}, {0, 512}, V9Times))

NextV9 == V9Data \/ V9SynAck \/ V9Ack

SpecV9 == Init /\ [][NextV9]_vars

(* SpecProf: tcp_professional_report.py over three streams, two of them from
   the same source address to the same destination address *)
MaxProfPkts == 3

ProfPairs ==
    {<<<<Ip10, 1>>, Client>>, <<<<Ip10, 2>>, Client>>, <<Client, <<Ip10, 2>>>>}

ProfRecv(segs) ==
    \E seg \in segs :
        /\ prof.phase = "parsing"
        /\ prof.packets < MaxProfPkts
        /\ ProfStep(seg)
        /\ UNCHANGED <<paState, script, v4State, scoreState, reportState,
                       engine, trend, seglog, toolRuns>>

ProfData == ProfRecv(DataSegsOf(ProfPairs, {1, 2}, {2}, {0}, {100, 512}, Tick))

ProfAck == ProfRecv(AckSegs(ProfPairs, {1}, {512}, Tick))

ProfDone ==
    ProfAggregate /\ UNCHANGED <<paState, script, v4State, scoreState,
                                 reportState, engine, trend, seglog, toolRuns>>

ProfAgain ==
    ProfAggregateAgain /\ UNCHANGED <<paState, script, v4State, scoreState,
                                      reportState, engine, trend, seglog, toolRuns>>

NextProf == ProfData \/ ProfAck \/ ProfDone \/ ProfAgain

SpecProf == Init /\ [][NextProf]_vars

(* SpecTrend: analyze_tcp_dpkt_full_trend.py over a capture of zero or more
   TCP segments of one connection *)
MaxTrendPkts == 3

TrendTimes == {clock + 1, clock + 2}

TrendRecv(segs) ==
    \E seg \in segs :
        /\ trend.phase = "parsing"
        /\ trend.packets < MaxTrendPkts
        /\ TrendStep(seg)
        /\ UNCHANGED <<paState, script, v4State, scoreState, reportState,
                       engine, prof, seglog, toolRuns>>

TrendData == TrendRecv(DataSegsOf(ConnPairs, {1, 2}, {2}, {0}, {100, 512}, TrendTimes))

TrendAck == TrendRecv(AckSegs(ConnPairs, {3}, {512}, TrendTimes))

TrendDone ==
    TrendFinish /\ UNCHANGED <<paState, script, v4State, scoreState,
                               reportState, engine, prof, seglog, toolRuns>>

NextTrend == TrendData \/ TrendAck \/ TrendDone

SpecTrend == Init /\ [][NextTrend]_vars

(* one more record of the capture, remembered in the history of its flow *)
RecvLogged(segs, limit) ==
    \E seg \in segs :
        /\ tcp_count < limit
        /\ AnalyzeTcp(seg)
        /\ LET key == get_flow_key(seg.src, seg.dst).key
           IN seglog' = DictSet(seglog, key, Append(DefaultGet(seglog, key, <<>>), seg))
        /\ UNCHANGED <<script, v4State, scoreState, reportState, engine, prof, trend, toolRuns>>

(* SpecWatermark: payload segments of 100 or 200 bytes at seq 100, 200 and
   300 in both directions of one connection, and bare acknowledgments *)
MaxWmPkts == 4

WmData ==
    RecvLogged(DataSegsOf(ConnPairs, {100, 200, 300}, {100, 200}, {0}, {512}, Tick),
               MaxWmPkts)

WmAck == RecvLogged(AckSegs(ConnPairs, {200}, {512}, Tick), MaxWmPkts)

NextWatermark == WmData \/ WmAck

SpecWatermark == Init /\ [][NextWatermark]_vars

(* SpecRtt: one connection whose segments are 1 or 10 seconds apart *)
SlowTimes == {clock + 1, clock + 10}

RttData == Recv(DataSegs(ConnPairs, {1}, {0}, {512}, SlowTimes))

RttAck == Recv(AckSegs(ConnPairs, {2}, {512}, SlowTimes))

RttSyn == Recv(SynSegs(ConnPairs, {0, 2}, {512}, SlowTimes))

NextRtt == RttData \/ RttAck \/ RttSyn

SpecRtt == Init /\ [][NextRtt]_vars

(* SpecShard: two connections, one of them seen in both directions, their
   segments interleaved in every order *)
MaxShardPkts == 3

ShardPairs == ConnPairs \cup {<<<<Ip10, 1>>, Client>>}

ShardData == RecvLogged(DataSegs(ShardPairs, {1}, {0}, {512}, NextTs), MaxShardPkts)

ShardAck == RecvLogged(AckSegs(ShardPairs, {2}, {512}, NextTs), MaxShardPkts)

ShardSyn == RecvLogged(SynSegs(ShardPairs, {0, 2}, {512}, NextTs), MaxShardPkts)

NextShard == ShardData \/ ShardAck \/ ShardSyn

SpecShard == Init /\ [][NextShard]_vars

(* SpecWal: wal_rename_v2.py run, and run again, on a directory of a few
   files: well-formed segments under wrong, hidden and correct names,
   truncated files and files with a foreign header *)
MaxWalFiles == 2

(* create_test_wal_file of test_wal_rename.py: the 24 bytes of a header *)
Header(magic, version, tli, pageaddr) ==
    <<magic % 256, magic \div 256, version % 256, version \div 256>>
        \o tli \o pageaddr \o <<0, 0, 0, 0, 0, 0, 0, 0>>

WalFiles ==
    { Header(XLR_MAGIC, 15, <<1, 0, 0, 0>>, <<0, 0, 0, 0, 0, 0, 0, 0>>),
      Header(XLR_MAGIC, 15, <<1, 0, 0, 0>>, <<0, 1, 0, 1, 0, 0, 0, 0>>),
      Header(XLR_MAGIC, 13, <<1, 0, 0, 0>>, <<0, 0, 0, 0, 0, 0, 0, 16>>),
      Header(65535, 15, <<1, 0, 0, 0>>, <<0, 0, 0, 0, 0, 0, 0, 0>>),
      Header(XLR_MAGIC, 5, <<1, 0, 0, 0>>, <<0, 0, 0, 0, 0, 0, 0, 0>>),
      <<0, 0, 0, 0, 0, 0, 0, 0, 0, 0>>,
      <<>> }

(* "x", "y", ".x", "000000010000000000000000" and "000000010000000000000001" *)
WalNames ==
    { <<120>>, <<121>>, <<46, 120>>,
      [i \in 1..24 |-> IF i = 8 THEN 49 ELSE 48],
      [i \in 1..24 |-> IF i \in {8, 24} THEN 49 ELSE 48] }

WalDirs ==
    UNION { [names -> WalFiles] :
                names \in { S \in SUBSET WalNames : Cardinality(S) <= MaxWalFiles } }

InitWal ==
    /\ PaInit /\ script = Idle /\ V4Init /\ ScoreIdle /\ ReportInit /\ OtherInit
    /\ wal \in { WalIdle(dir) : dir \in WalDirs }
    /\ ForensicsInit
    /\ TcpEngineInit

WalRun ==
    /\ \E segment_size \in {XLOG_SEG_SIZE, 1024 * 1024}, dry_run \in BOOLEAN :
            WalMain(segment_size, dry_run)
    /\ UNCHANGED <<paState, capture, script, v4State, scoreState, reportState,
                   engine, prof, trend, seglog, forensics,
                   tcp_engine>>

WalStep ==
    WalLoop /\ UNCHANGED <<paState, capture, script, v4State, scoreState,
                           reportState, engine, prof, trend, seglog, forensics,
                   tcp_engine>>

WalDone ==
    WalExit /\ UNCHANGED <<paState, capture, script, v4State, scoreState,
                           reportState, engine, prof, trend, seglog, forensics,
                   tcp_engine>>

WalRollbackRun ==
    WalMainRollback /\ UNCHANGED <<paState, capture, script, v4State, scoreState,
                                   reportState, engine, prof, trend, seglog, forensics,
                   tcp_engine>>

WalRollbackCall ==
    WalRollbackChanges /\ UNCHANGED <<paState, capture, script, v4State,
                                      scoreState, reportState, engine, prof,
                                      trend, seglog, forensics,
                   tcp_engine>>

NextWal == WalRun \/ WalStep \/ WalDone \/ WalRollbackRun \/ WalRollbackCall

SpecWal == InitWal /\ [][NextWal]_vars

(* SpecV10: pcap_analyzer_v10.py over one connection seen in both
   directions; a segment follows the one before after 1 ms, 300 ms or 3 s *)
MaxV10Pkts == 3

V10Times == {clock + 1, clock + 300, clock + 3 * MsPerSec}

V10Recv(segs) ==
    \E seg \in segs :
        /\ forensics.global_packets < MaxV10Pkts
        /\ ForensicsAnalyzePacket(seg)
        /\ UNCHANGED <<paState, script, v4State, scoreState, reportState,
                       engine, prof, trend, wal, tcp_engine>>

V10Data == V10Recv(DataSegsOf(ConnPairs, {1, 11}, {10}, {0}, {512}, V10Times))

V10Ack == V10Recv(AckSegs(ConnPairs, {11}, {0, 512}, V10Times))

NextV10 == V10Data \/ V10Ack

SpecV10 == Init /\ [][NextV10]_vars

(* SpecV8: pcap_analyzer_v8.py over two connections seen in both
   directions, one between two hosts and one between two ports of one host *)
MaxV8Pkts == 3

LocalPairs == {<<<<Ip10, 1>>, <<Ip10, 2>>>>, <<<<Ip10, 2>>, <<Ip10, 1>>>>}

V8Pairs == ConnPairs \cup LocalPairs

V8Recv(segs) ==
    \E seg \in segs :
        /\ tcp_engine.packet_count < MaxV8Pkts
        /\ process_packet(seg)
        /\ UNCHANGED <<paState, script, v4State, scoreState, reportState,
                       engine, prof, trend, seglog, wal, forensics>>

V8Data == V8Recv(DataSegsOf(V8Pairs, {1, 11}, {10}, {0, 11}, {512}, Tick))

V8Syn == V8Recv(SynSegs(V8Pairs, {0, 2}, {512}, Tick))

V8Fin == V8Recv(FinSegs(V8Pairs, {0, 512}, Tick) \cup RstSegs(V8Pairs, {0}, {0}, Tick))

NextV8 == V8Data \/ V8Syn \/ V8Fin

SpecV8 == Init /\ [][NextV8]_vars

(* SpecCounters: two connections, one of them seen in both directions; SYN,
   SYN-ACK, FIN, RST and payload segments, with open and with zero windows *)
CntData == Recv(DataSegs(ShardPairs, {1}, {0}, {0, 512}, Tick))

CntSyn == Recv(SynSegs(ShardPairs, {0, 2}, {512}, Tick))

CntFin == Recv(FinSegs(ShardPairs, {0, 512}, Tick))

CntRst == Recv(RstSegs(ShardPairs, {0}, {0}, Tick))

NextCounters == CntData \/ CntSyn \/ CntFin \/ CntRst

SpecCounters == Init /\ [][NextCounters]_vars

----------------------------------------------------------------------------
(* Properties of PCAPAnalyzer *)

LastSeg == pkt[1]

LastKey == get_flow_key(LastSeg.src, LastSeg.dst).key

LastFlow == flows[LastKey]

(* the smaller and the larger endpoint of a segment, in Python's tuple order *)
Smaller(seg) == IF EndpointLess(seg.src, seg.dst) THEN seg.src ELSE seg.dst

Larger(seg) == IF EndpointLess(seg.src, seg.dst) THEN seg.dst ELSE seg.src

(* C1: both directions of a connection share one flow key, one TCPFlow is
   kept per unordered pair of endpoints, and the direction is 0 exactly when
   the sender is the lexicographically smaller (ip, port) endpoint: a payload
   segment is tracked under direction 0 iff its sender is the smaller one. *)
C1_CanonicalFlowKey ==
    /\ \A k1, k2 \in DOMAIN flows :
          {k1[1], k1[2]} = {k2[1], k2[2]} => k1 = k2
    /\ pkt # <<>> =>
          LET seg == LastSeg
              key == <<Smaller(seg), Larger(seg)>>
              d == IF seg.src = Smaller(seg) THEN 0 ELSE 1
          IN /\ key \in DOMAIN flows
             /\ seg.len > 0 =>
                   /\ seg.seq + seg.len \in DOMAIN flows[key].sent_seqs[d]
                   /\ flows[key].sent_seqs[d][seg.seq + seg.len] = seg.ts

(* a connection between two endpoints of the same address has carried payload
   in both directions, the last segment coming from the larger endpoint *)
C1_Witness ==
    /\ pkt # <<>>
    /\ LastSeg.src[1] = LastSeg.dst[1]
    /\ LastSeg.src = Larger(LastSeg)
    /\ LastSeg.len > 0
    /\ LastFlow.packets_count >= 2
    /\ LastFlow.max_seq[0] > 0
    /\ LastFlow.max_seq[1] > 0

(* C6: right after a segment with the ACK flag and acknowledgment number a,
   the pending map of the opposite direction holds no key smaller than a. *)
C6_NoPendingBelowAck ==
    (pkt # <<>> /\ LastSeg.is_ack) =>
        LET d == get_flow_key(LastSeg.src, LastSeg.dst).direction
        IN \A k \in DOMAIN LastFlow.sent_seqs[1 - d] : k >= LastSeg.ack

(* an ACK for 3 arrived after the peer's payload segment 1..2 was registered
   under key 2 and no sample was ever taken: the clean-up removed the entry *)
C6_Witness ==
    /\ pkt # <<>>
    /\ LastSeg.is_ack /\ LastSeg.ack = 3 /\ LastSeg.len = 0
    /\ LET d == get_flow_key(LastSeg.src, LastSeg.dst).direction
       IN /\ LastFlow.max_seq[1 - d] = 2
          /\ LastFlow.sent_seqs[1 - d] = EmptyDict
          /\ LastFlow.rtt_samples = <<>>
          /\ LastFlow.packets_count = 2

(* C10: a segment increments flow.zero_windows and global_zero_window, each
   by one, iff its window is 0 and it is not a RST; otherwise both are left
   unchanged. *)
C10_ZeroWindowExcludesRst ==
    [][ LET seg == pkt'[1]
            key == get_flow_key(seg.src, seg.dst).key
            before == IF key \in DOMAIN flows THEN flows[key].zero_windows ELSE 0
            inc == IF seg.win = 0 /\ ~seg.is_rst THEN 1 ELSE 0
        IN /\ flows'[key].zero_windows = before + inc
           /\ global_zero_window' = global_zero_window + inc ]_vars

(* the flow of the scripted connection *)
ConnFlow == flows[get_flow_key(Client, Server).key]

(* C3: without handshake segments, a payload segment sent at t1 and the
   opposite ACK for seq + len at t2 > t1 give exactly one RTT sample, the time
   t2 - t1 (in the milliseconds rtt_samples is kept in); a copy of the segment
   before or after the ACK seeds no sample, so the sample stays the only one
   also when the copy is acknowledged again. *)
C3_OneSampleKarn ==
    script.phase \in {"acked", "copied_after", "acked_again"} =>
        ConnFlow.rtt_samples = <<(script.t[2] - script.t[1]) * MsPerSec>>

(* C8: SYN, SYN-ACK, payload and its ACK end with exactly 2 RTT samples, the
   SYN -> SYN-ACK time and the data -> ACK time. *)
C8_HandshakeTwoSamples ==
    script.phase = "acked" =>
        ConnFlow.rtt_samples = << (script.t[2] - script.t[1]) * MsPerSec,
                                  (script.t[4] - script.t[3]) * MsPerSec >>

----------------------------------------------------------------------------
(* Properties of pcap_analyzer_v4.py *)

(* how many elements of a log repeat an earlier element *)
RECURSIVE Repeats(_)
Repeats(log) ==
    IF log = <<>> THEN 0
    ELSE LET n == Len(log)
             front == SubSeq(log, 1, n - 1)
         IN Repeats(front)
            + (IF \E j \in 1 .. n - 1 : log[j] = log[n] THEN 1 ELSE 0)

V4Log(key) == IF key \in DOMAIN seqlog THEN seqlog[key] ELSE <<>>

(* C2: the retransmissions counter of a directional flow counts, once each,
   exactly the payload segments whose seq is the start seq of an earlier
   payload segment of that flow; for the payload seqs 100, 200, 100, 300 it
   is exactly 1. *)
C2_RetransmissionsExact ==
    \A key \in DOMAIN state.flows :
        /\ state.flows[key].retransmissions = Repeats(V4Log(key))
        /\ V4Log(key) = <<100, 200, 100, 300>> =>
              state.flows[key].retransmissions = 1

C2_Witness ==
    \E key \in DOMAIN state.flows :
        /\ V4Log(key) = <<100, 200, 100, 300>>
        /\ state.flows[key].retransmissions = 1

(* C5: a payload segment whose seq is already in its flow's seen_seqs neither
   inserts nor overwrites an entry of that flow's unacked_packets. *)
C5_KarnNoRegister ==
    [][ LET seg == pkt'[1]
            key == <<seg.src, seg.dst>>
        IN (seg.len > 0 /\ key \in DOMAIN state.flows
                /\ seg.seq \in state.flows[key].seen_seqs) =>
              \A e \in DOMAIN state'.flows[key].unacked_packets :
                  /\ e \in DOMAIN state.flows[key].unacked_packets
                  /\ state'.flows[key].unacked_packets[e]
                        = state.flows[key].unacked_packets[e] ]_vars

(* the last segment repeats an earlier payload segment of its flow, whose
   pending entry still carries the time of the first transmission *)
C5_Witness ==
    /\ pkt # <<>>
    /\ LastSeg.len > 0
    /\ LET key == <<LastSeg.src, LastSeg.dst>>
           e == LastSeg.seq + LastSeg.len
       IN /\ key \in DOMAIN seqlog
          /\ Len(seqlog[key]) >= 2
          /\ \E j \in 1 .. Len(seqlog[key]) - 1 : seqlog[key][j] = LastSeg.seq
          /\ e \in DOMAIN state.flows[key].unacked_packets
          /\ state.flows[key].unacked_packets[e] < LastSeg.ts

(* C7: a payload segment with an unseen seq below the flow's max_seq is
   counted as out-of-order (out_of_order + 1) and not as a retransmission. *)
C7_OutOfOrderCounted ==
    [][ LET seg == pkt'[1]
            key == <<seg.src, seg.dst>>
        IN (seg.len > 0 /\ key \in DOMAIN state.flows
                /\ seg.seq < state.flows[key].max_seq
                /\ seg.seq \notin state.flows[key].seen_seqs) =>
              /\ state'.flows[key].out_of_order = state.flows[key].out_of_order + 1
              /\ state'.flows[key].retransmissions
                    = state.flows[key].retransmissions ]_vars

----------------------------------------------------------------------------
(* Properties of the scorers *)

(* C4: the triple of every per-flow scorer sums to 1 within 1e-6, on the
   normalised path and on the no-signal fallback path. *)
C4_TripleSumsToOne ==
    diag.by # "none" =>
        LET diff == diag.c + diag.n + diag.s - diag.den
        IN /\ diff * 1000000 <= diag.den
           /\ (0 - diff) * 1000000 <= diag.den

(* C13: when no signal fired (total score not above epsilon),
   calculate_probabilities returns the uniform triple, each component 1/3. *)
C13_UniformFallback ==
    (diag.by = "calculate_probabilities" /\ ReportNoSignal(stats)) =>
        /\ 3 * diag.c = diag.den
        /\ 3 * diag.n = diag.den
        /\ 3 * diag.s = diag.den

----------------------------------------------------------------------------
(* Properties of analyze_and_generate_report.py *)

(* C9: total_tcp_sessions is the number of distinct unordered endpoint pairs
   among the directional flow keys: a connection seen in both directions
   counts once, and so does one seen in one direction only. *)
C9_SessionsAreUnorderedPairs ==
    report.phase = "done" =>
        report.total_tcp_sessions
            = Cardinality({ {k[1], k[2]} : k \in DOMAIN rflows })

(* two connections, one seen in both directions and one in one direction *)
C9_Witness ==
    /\ report.phase = "done"
    /\ report.total_tcp_sessions = 2
    /\ Cardinality(DOMAIN rflows) = 3
    /\ \E k \in DOMAIN rflows : <<k[2], k[1]>> \in DOMAIN rflows /\ k[1] # k[2]


ReportKey == <<LastSeg.src, LastSeg.dst>>

(* the positions of the retransmissions in the segments of a directional
   flow: payload segments, not keep-alives, whose seq an earlier payload
   segment of the flow had *)
ReportRetransAt(log) ==
    {i \in 1 .. Len(log) :
        /\ log[i].len > 0
        /\ ~(log[i].len <= KeepAliveLen /\ log[i].is_ack)
        /\ \E j \in 1 .. i - 1 : log[j].len > 0 /\ log[j].seq = log[i].seq}

(* C16: when a retransmission is counted, cont_retrans is incremented exactly
   when its seq is the seq of the previous retransmission of the same
   directional flow; a first retransmission is not continuous. *)
C16_ContinuousRetransmission ==
    [][ (report'.packet_count = report.packet_count + 1
            /\ ReportKey' \in DOMAIN rflows
            /\ rflows'[ReportKey'].retrans = rflows[ReportKey'].retrans + 1) =>
          LET log == seglog[ReportKey']
              earlier == ReportRetransAt(log)
              repeated == /\ earlier # {}
                          /\ log[CHOOSE i \in earlier : \A j \in earlier : j <= i].seq
                                = LastSeg'.seq
          IN rflows'[ReportKey'].cont_retrans
                = rflows[ReportKey'].cont_retrans + B2N(repeated) ]_vars

----------------------------------------------------------------------------
(* Properties of ForensicEngine (pcap_analyzer_v9.py) *)

V9Key == v9_get_flow_key(LastSeg.src, LastSeg.dst)

(* the flow of the segment being processed, before and after the step *)
V9Before == DefaultGet(engine.flows, V9Key', V9FlowMetrics)
V9After == engine'.flows[V9Key']

V9Stepped == engine'.total_packets = engine.total_packets + 1

(* the payload segments the sender of the segment being processed sent
   earlier on the same flow with the same seq *)
V9EarlierSame ==
    LET log == DefaultGet(seglog, V9Key', <<>>)
    IN {i \in 1 .. Len(log) : /\ log[i].src = LastSeg'.src
                              /\ log[i].len > 0
                              /\ log[i].seq = LastSeg'.seq}

Max(a, b) == IF a > b THEN a ELSE b

(* baseline of the claim: the average RTT with 3 samples or more, the fixed
   fallback otherwise; Exceeds(delta, k) is delta > max(floor, 2 x baseline) *)
V9ExceedsRto(flow, delta) ==
    LET n == Len(flow.rtt_samples)
    IN /\ delta > MIN_RTO_MS
       /\ IF n >= 3
          THEN delta * n > SeqSum(flow.rtt_samples) * RTO_THRESHOLD_MULTIPLIER
          ELSE delta > FallbackBaselineMs * RTO_THRESHOLD_MULTIPLIER

(* C11: a retransmitted payload segment is counted in retrans_rto exactly
   when the time since the last observation on the flow exceeds
   max(RTO floor, 2 x baseline), and in retrans_fast otherwise. *)
C11_RtoByTimeSinceLastObservation ==
    [][ (V9Stepped /\ LastSeg'.len > 0 /\ V9EarlierSame # {}) =>
            LET rto == V9ExceedsRto(V9Before, LastSeg'.ts - V9Before.end_ts)
            IN /\ V9After.retrans_rto = V9Before.retrans_rto + B2N(rto)
               /\ V9After.retrans_fast = V9Before.retrans_fast + B2N(~rto) ]_vars

(* C19: a retransmission is counted only if the same endpoint sent an
   earlier payload segment with the same seq. *)
C19_RetransmissionPerDirection ==
    [][ (V9Stepped /\ V9After.retrans_fast + V9After.retrans_rto
                        > V9Before.retrans_fast + V9Before.retrans_rto)
            => V9EarlierSame # {} ]_vars


----------------------------------------------------------------------------
(* Properties of tcp_professional_report.py *)

ProfRowSumsToOne(row) == row.c + row.n + row.s = row.den

(* C12: once the per-IP tables are built, the (client, network, server)
   triple of every source address and of every destination address sums to 1. *)
C12_IpTripleRenormalised ==
    prof.phase = "done" =>
        /\ \A ip \in DOMAIN prof.src_rows : ProfRowSumsToOne(prof.src_rows[ip])
        /\ \A ip \in DOMAIN prof.dst_rows : ProfRowSumsToOne(prof.dst_rows[ip])

(* C22: aggregating the same streams a second time, visiting them in any
   order, yields the same source-role and destination-role tables. *)
C22_AggregationOrderIndependent ==
    [][ (prof.phase = "done" /\ prof'.phase = "again") =>
            /\ prof'.src_rows = prof.src_rows
            /\ prof'.dst_rows = prof.dst_rows ]_vars

(* aggregated twice: three streams, two of them under one source address
   with different probabilities *)
C22_Witness ==
    /\ prof.phase = "again"
    /\ Cardinality(DOMAIN prof.streams) = 3
    /\ \E k1, k2 \in DOMAIN prof.streams :
          /\ k1 # k2 /\ k1[1][1] = k2[1][1]
          /\ prof.flow_rows[k1] # prof.flow_rows[k2]
    /\ \E ip \in DOMAIN prof.src_rows : prof.src_rows[ip].flow_count = 2

ProfKey == <<LastSeg.src, LastSeg.dst>>

(* C15: a segment without payload leaves retrans, rto and cont_retrans of
   its stream as they were. *)
C15_ControlSegmentNotRetrans ==
    [][ (prof'.packets = prof.packets + 1 /\ LastSeg'.len = 0) =>
            LET before == DefaultGet(prof.streams, ProfKey', ProfStream)
                after == prof'.streams[ProfKey']
            IN /\ after.retrans = before.retrans
               /\ after.rto = before.rto
               /\ after.cont_retrans = before.cont_retrans ]_vars


----------------------------------------------------------------------------
(* Properties of analyze_tcp_dpkt_full_trend.py *)

(* C14: a run over any finite segment sequence, the capture without a TCP
   segment included, completes its scoring, aggregation and
   overall-probability stages; it never faults. *)
C14_TrendNeverFaults == trend.phase # "fault"


----------------------------------------------------------------------------
(* Properties of TCPFlow.check_retransmission over the segment history *)

SetMax(S) == IF S = {} THEN 0 ELSE CHOOSE x \in S : \A y \in S : y <= x

(* the segments of a flow sent in direction d *)
DirSegs(log, d) ==
    SelectSeq(log, LAMBDA g : get_flow_key(g.src, g.dst).direction = d)

(* seq + payload_len of the payload segments accepted as new in-order data:
   those that start at or beyond everything accepted before them *)
RECURSIVE AcceptedEnds(_)
AcceptedEnds(log) ==
    IF log = <<>> THEN {}
    ELSE LET prev == AcceptedEnds(SubSeq(log, 1, Len(log) - 1))
             last == log[Len(log)]
         IN IF last.len > 0 /\ \A e \in prev : last.seq >= e
            THEN prev \cup {last.seq + last.len}
            ELSE prev

WmScenario(log) ==
    /\ Len(log) = 4
    /\ [i \in 1 .. 4 |-> log[i].seq] = <<100, 200, 100, 300>>
    /\ \A i \in 1 .. 4 : log[i].len = 100

(* C17: max_seq[d] is the maximum of seq + payload_len over the payload
   segments of direction d accepted as new in-order data, 0 without any (so
   it never decreases as the history grows); after payload segments at
   seq = 100, 200, 100, 300 of length 100 it is 400. *)
C17_MaxSeqIsWatermark ==
    \A key \in DOMAIN flows : \A d \in {0, 1} :
        LET log == DirSegs(DefaultGet(seglog, key, <<>>), d)
        IN /\ flows[key].max_seq[d] = SetMax(AcceptedEnds(log))
           /\ WmScenario(log) => flows[key].max_seq[d] = 400

C17_Witness ==
    \E key \in DOMAIN flows : \E d \in {0, 1} :
        /\ key \in DOMAIN seglog
        /\ WmScenario(DirSegs(seglog[key], d))
        /\ flows[key].max_seq[d] = 400
        /\ flows[key].retransmissions = 1


(* C18: every value stored in rtt_samples, from the handshake logic or from
   data/ACK correlation, is above 0 and below the RTT sanity bound of at
   most 10 s (samples are in milliseconds). *)
C18_RttSamplesWithinSanityBound ==
    \A key \in DOMAIN flows :
        \A i \in 1 .. Len(flows[key].rtt_samples) :
            /\ flows[key].rtt_samples[i] > 0
            /\ flows[key].rtt_samples[i] < 10 * MsPerSec


(* what a worker that is given the segments of one flow only, in their
   original order, computes for that flow *)
RECURSIVE Replay(_)
Replay(log) ==
    IF log = <<>> THEN TCPFlow
    ELSE LET last == log[Len(log)]
         IN FlowAfter(Replay(SubSeq(log, 1, Len(log) - 1)),
                      get_flow_key(last.src, last.dst).direction, last)

(* C20: the state of every flow is determined by the segments of that flow
   in their relative order, however the segments of other flows are
   interleaved with them: it is what a worker fed with that flow alone
   computes. *)
C20_FlowStateIndependentOfInterleaving ==
    /\ DOMAIN flows = DOMAIN seglog
    /\ \A key \in DOMAIN flows : flows[key] = Replay(seglog[key])

(* two flows, a segment of the second between two segments of the first,
   and an RTT sample measured in the first *)
C20_Witness ==
    \E k1 \in DOMAIN flows : \E k2 \in DOMAIN flows \ {k1} :
        /\ k1 \in DOMAIN seglog /\ k2 \in DOMAIN seglog
        /\ Len(seglog[k1]) >= 2
        /\ seglog[k1][1].ts <= seglog[k2][1].ts
        /\ seglog[k2][1].ts <= seglog[k1][2].ts
        /\ flows[k1].rtt_samples # <<>>


(* C21: processing one segment changes only the TCPFlow under that segment's
   key: every other flow is unchanged, no flow is removed, and an existing
   flow is carried on, not replaced by a fresh TCPFlow. *)
C21_OnlyOwnFlowMutated ==
    [][ tcp_count' = tcp_count + 1 =>
            /\ \A k \in DOMAIN flows :
                /\ k \in DOMAIN flows'
                /\ k # LastKey' => flows'[k] = flows[k]
            /\ LastKey' \in DOMAIN flows =>
                flows'[LastKey'].packets_count = flows[LastKey'].packets_count + 1 ]_vars

(* three segments, the third on a flow that already existed next to another *)
C21_Witness ==
    /\ tcp_count = 3
    /\ Cardinality(DOMAIN flows) = 2
    /\ LastFlow.packets_count = 2
    /\ seglog[LastKey][1].ts <= seglog[CHOOSE k \in DOMAIN flows : k # LastKey][1].ts

(* C29: after a segment with the ACK flag whose acknowledgment number matched
   a pending entry of the opposite direction, that entry is gone from the
   pending map, whether or not an RTT sample was taken. *)
C29_ResolvedEntryRemoved ==
    (pkt # <<>> /\ LastSeg.is_ack /\ LastSeg.ack > 0) =>
        LET d == get_flow_key(LastSeg.src, LastSeg.dst).direction
        IN LastSeg.ack \notin DOMAIN LastFlow.sent_seqs[1 - d]

----------------------------------------------------------------------------
(* Properties of wal_rename_v2.py *)

(* arithmetic on digit sequences, for stating the results independently *)
RECURSIVE ToDigits(_)
ToDigits(c) == IF c < 16 THEN <<c>> ELSE ToDigits(c \div 16) \o <<c % 16>>

RECURSIVE MulAdd(_, _, _)
MulAdd(n, d, c) ==
    IF n = <<>> THEN ToDigits(c)
    ELSE LET v == n[Len(n)] * d + c
         IN  MulAdd(SubSeq(n, 1, Len(n) - 1), d, v \div 16) \o <<v % 16>>

BigLess(a, b) ==
    LET x == StripZeros(a)
        y == StripZeros(b)
    IN  IF Len(x) # Len(y) THEN Len(x) < Len(y) ELSE StrLess(x, y)

(* the number a field of upper-case hexadecimal characters denotes, <<-1>>
   when a character is not one *)
HexField(chars) ==
    IF \A i \in 1..Len(chars) : chars[i] \in (48..57) \cup (65..70)
    THEN StripZeros([i \in 1..Len(chars) |->
                        IF chars[i] <= 57 THEN chars[i] - 48 ELSE chars[i] - 55])
    ELSE <<-1>>

WalHeaderOf(f) == SubSeq(wal.dir[f], 1, 24)

WalParsed(f) == parse_wal_file(wal.dir, f, wal.segment_size)

(* C28: for every valid header parse_wal_file returns logSegNo =
   xlp_pageaddr div segment_size, and new_name = the timeline as 8 upper-case
   hex digits, then logSegNo div 256 as 8 hex digits, then logSegNo mod 256
   as 8 hex digits; timeline 1 with page address 0 under the default segment
   size gives 000000010000000000000000 *)
C28_SegmentNameIsThreeHexFields ==
    \A f \in DOMAIN wal.dir :
        validate_header(wal.dir[f]) =>
            /\ WalParsed(f) # NoResult
            /\ LET r == WalParsed(f)[1]
                   tli == UnpackDigits(SubSeq(WalHeaderOf(f), 5, 8))
                   pageaddr == UnpackDigits(SubSeq(WalHeaderOf(f), 9, 16))
                   q == r.logSegNo
               IN  /\ ~BigLess(pageaddr, MulAdd(q, wal.segment_size, 0))
                   /\ BigLess(pageaddr, MulAdd(q, wal.segment_size, wal.segment_size))
                   /\ Len(r.new_name) = 24
                   /\ HexField(SubSeq(r.new_name, 1, 8)) = StripZeros(tli)
                   /\ HexField(SubSeq(r.new_name, 9, 16))
                        = StripZeros(<<0>> \o SubSeq(q, 1, Len(q) - 2))
                   /\ HexField(SubSeq(r.new_name, 17, 24))
                        = StripZeros(SubSeq(q, Len(q) - 1, Len(q)))
                   /\ (wal.segment_size = XLOG_SEG_SIZE
                       /\ StripZeros(tli) = <<1>> /\ StripZeros(pageaddr) = <<0>>)
                        => r.new_name = [i \in 1..24 |-> IF i = 8 THEN 49 ELSE 48]

(* the file the loop of process_directory handles in this step *)
WalCurrent == Head(wal.files)

WalHandling == wal.phase = "scan" /\ wal.files # <<>>

(* a file parse_wal_file must refuse: shorter than 24 bytes, a magic other
   than 0xD061, or a version outside the supported ones *)
WalUnparsable(file) ==
    \/ Len(file) < 24
    \/ file[1] + 256 * file[2] # 53345
    \/ file[3] + 256 * file[4] \notin {3, 4, 11, 12, 13, 14, 15}

(* the name the header of a well-formed file computes to *)
WalTarget(f) == WalParsed(f)[1].new_name

(* C27: parse_wal_file returns None for a path that is not an existing file,
   for a file shorter than 24 bytes (an empty one too) and for a header with
   a wrong magic or an unsupported version; process_directory never renames
   such a file and counts it under stats['errors'] *)
C27_UnparsableCountedAsError ==
    /\ [](\A f \in WalNames \cup DOMAIN wal.dir :
              (f \notin DOMAIN wal.dir \/ WalUnparsable(wal.dir[f]))
                  => WalParsed(f) = NoResult)
    /\ [][ (WalHandling /\ WalUnparsable(wal.dir[WalCurrent])) =>
               /\ wal'.dir = wal.dir
               /\ wal'.stats.errors = wal.stats.errors + 1 ]_vars

(* C24: not in dry-run, process_directory renames every file with a valid
   header whose name differs from the computed name and whose target name is
   free: afterwards the old name is gone, the computed name exists, and
   stats['renamed'] equals the number of files renamed *)
C24_RenamedWhenTargetFree ==
    /\ [][ ( /\ WalHandling
             /\ ~wal.dry_run
             /\ ~WalUnparsable(wal.dir[WalCurrent])
             /\ WalTarget(WalCurrent) # WalCurrent
             /\ WalTarget(WalCurrent) \notin DOMAIN wal.dir ) =>
               /\ WalCurrent \notin DOMAIN wal'.dir
               /\ WalTarget(WalCurrent) \in DOMAIN wal'.dir
               /\ wal'.dir[WalTarget(WalCurrent)] = wal.dir[WalCurrent]
               /\ wal'.stats.renamed = wal.stats.renamed + 1 ]_vars
    /\ []((wal.phase = "exited" /\ wal.mode = "rename")
              => wal.stats.renamed = Len(wal.operations))

(* C23: WALRenamer never replaces an existing file: when a file with the
   computed target name exists already, the source file keeps its name, the
   target is left untouched and stats['skipped'] grows by one *)
C23_ExistingTargetSkipped ==
    [][ ( /\ WalHandling
          /\ ~WalUnparsable(wal.dir[WalCurrent])
          /\ WalTarget(WalCurrent) # WalCurrent
          /\ WalTarget(WalCurrent) \in DOMAIN wal.dir ) =>
            /\ wal'.dir = wal.dir
            /\ wal'.stats.skipped = wal.stats.skipped + 1 ]_vars

(* C25: with dry_run=True process_directory renames no file, every file is
   still there under its original name afterwards, and stats['renamed']
   remains 0 *)
C25_DryRunRenamesNothing ==
    [][ (wal'.dry_run /\ wal'.mode = "rename" /\ wal'.phase \in {"scan", "exited"}) =>
            /\ \A f \in DOMAIN wal.dir :
                   f \in DOMAIN wal'.dir /\ wal'.dir[f] = wal.dir[f]
            /\ wal'.stats.renamed = 0 ]_vars

(* C25 witness: a dry run has ended on a directory in which a real run would
   have renamed a file *)
C25_Witness ==
    /\ wal.phase = "exited" /\ wal.mode = "rename" /\ wal.dry_run
    /\ \E f \in DOMAIN wal.dir :
           /\ Head(f) # 46
           /\ ~WalUnparsable(wal.dir[f])
           /\ WalTarget(f) # f
           /\ WalTarget(f) \notin DOMAIN wal.dir

(* C26: --rollback after an earlier invocation that renamed files rolls that
   run back: every file it renamed is returned to its previous name *)
C26_RollbackRestoresLastRun ==
    [][ (wal.phase = "exited" /\ wal.mode = "rename" /\ wal'.mode = "rollback") =>
            \A i \in 1..Len(wal.state_file) :
                /\ wal.state_file[i].old_name \in DOMAIN wal'.dir
                /\ wal'.dir[wal.state_file[i].old_name]
                     = wal.dir[wal.state_file[i].new_name] ]_vars

----------------------------------------------------------------------------
(* Properties of pcap_analyzer_v10.py *)

(* the segment analyze_packet is called with in this step, its key and
   direction *)
V10Seg == pkt'[1]

V10Of == V10FlowKey(V10Seg.src, V10Seg.dst)

(* the positions in the flow's log of the earlier payload segments of the
   same sender with the same seq *)
V10EarlierCopies ==
    {i \in 1..Len(seglog[V10Of.key]) :
        /\ seglog[V10Of.key][i].src = V10Seg.src
        /\ seglog[V10Of.key][i].len > 0
        /\ seglog[V10Of.key][i].seq = V10Seg.seq}

(* milliseconds since that seq was last sent *)
V10Gap == V10Seg.ts - seglog[V10Of.key][SetMax(V10EarlierCopies)].ts

(* C30: a payload segment whose seq is below the direction's expected next
   seq (here: one sent before) is counted under retrans_rto when the time
   gap of the retransmission exceeds 200 ms or twice the flow's average RTT,
   and under retrans_fast otherwise *)
C30_RtoByGapOrAverageRtt ==
    [][ ( /\ forensics'.global_packets = forensics.global_packets + 1
          /\ V10Of.key \in DOMAIN forensics.streams
          /\ V10Seg.len > 0
          /\ V10Seg.seq < forensics.streams[V10Of.key].next_seq[V10Of.direction + 1]
          /\ V10EarlierCopies # {} ) =>
            LET old == forensics.streams[V10Of.key]
                new == forensics'.streams[V10Of.key]
                n == Len(old.rtt_samples)
                total == SeqSum(old.rtt_samples)
            IN  IF V10Gap > 200 \/ (n > 0 /\ V10Gap * n > 2 * total)
                THEN /\ new.retrans_rto = old.retrans_rto + 1
                     /\ new.retrans_fast = old.retrans_fast
                ELSE /\ new.retrans_fast = old.retrans_fast + 1
                     /\ new.retrans_rto = old.retrans_rto ]_vars

----------------------------------------------------------------------------
(* Further properties of pcap_analyzer_v4.py *)

(* C35: for every directional flow, after any sequence of segments,
   retransmissions + |seen_seqs| equals the number of payload-carrying
   segments processed for that flow: each payload segment either adds a new
   start seq or counts as exactly one retransmission *)
C35_PayloadSegmentsPartitioned ==
    \A key \in DOMAIN state.flows :
        state.flows[key].retransmissions + Cardinality(state.flows[key].seen_seqs)
            = Len(V4Log(key))

(* C35 witness: a flow with four payload segments, two of them new and two
   repeated *)
C35_Witness ==
    \E key \in DOMAIN state.flows :
        /\ Len(V4Log(key)) = 4
        /\ state.flows[key].retransmissions = 2
        /\ Cardinality(state.flows[key].seen_seqs) = 2

----------------------------------------------------------------------------
(* Further properties of PCAPAnalyzer *)

(* the sum of the values of a function with a finite domain *)
RECURSIVE SumOf(_)
SumOf(fn) ==
    IF DOMAIN fn = {} THEN 0
    ELSE LET k == CHOOSE x \in DOMAIN fn : TRUE
         IN  fn[k] + SumOf([x \in (DOMAIN fn) \ {k} |-> fn[x]])

(* C36: after any sequence of packets the global counters agree with the
   per-flow state: tcp_count is the sum of packets_count over all flows, and
   global_syn, global_syn_ack, global_fin, global_rst and global_zero_window
   are the sums of syn_count, syn_ack_count, fin_count, rst_count and
   zero_windows *)
C36_GlobalCountersAreFlowSums ==
    /\ tcp_count = SumOf([k \in DOMAIN flows |-> flows[k].packets_count])
    /\ global_syn = SumOf([k \in DOMAIN flows |-> flows[k].syn_count])
    /\ global_syn_ack = SumOf([k \in DOMAIN flows |-> flows[k].syn_ack_count])
    /\ global_fin = SumOf([k \in DOMAIN flows |-> flows[k].fin_count])
    /\ global_rst = SumOf([k \in DOMAIN flows |-> flows[k].rst_count])
    /\ global_zero_window = SumOf([k \in DOMAIN flows |-> flows[k].zero_windows])

(* C36 witness: two flows, each with a zero-window segment, one of them an
   RST, and a SYN in one of them *)
C36_Witness ==
    /\ Cardinality(DOMAIN flows) = 2
    /\ \A k \in DOMAIN flows : flows[k].zero_windows = 1
    /\ global_rst = 1
    /\ global_syn + global_syn_ack = 1
    /\ tcp_count = 3

----------------------------------------------------------------------------
(* Further properties of analyze_and_generate_report.py *)

(* C37: for every directional flow, after any sequence of segments,
   rto_cnt <= retrans, cont_retrans <= retrans and retrans <= count *)
C37_RetransCountersOrdered ==
    \A key \in DOMAIN rflows :
        /\ rflows[key].rto_cnt <= rflows[key].retrans
        /\ rflows[key].cont_retrans <= rflows[key].retrans
        /\ rflows[key].retrans <= rflows[key].count

(* C37 witness: a flow whose payload segment came twice, more than the RTO
   threshold apart; the copy is counted as a retransmission, as continuous
   and as an RTO *)
C37_Witness ==
    \E key \in DOMAIN rflows :
        /\ rflows[key].count = 2
        /\ rflows[key].retrans = 1
        /\ rflows[key].cont_retrans = 1
        /\ rflows[key].rto_cnt = 1

(* C33: when process_directory has run once, not in dry-run, running the
   tool again on the same directory with the same segment size renames no
   file *)
C33_SecondRunRenamesNothing ==
    [][ ( /\ WalHandling
          /\ wal.mode = "rename"
          /\ wal.last # <<>>
          /\ wal.last[1].mode = "rename"
          /\ ~wal.last[1].dry_run
          /\ wal.last[1].segment_size = wal.segment_size )
        => ( wal'.dir = wal.dir /\ wal'.stats.renamed = wal.stats.renamed ) ]_vars

(* the tool runs again after a completed renaming run, not a dry run, with
   the same segment size *)
WalSecondPass ==
    /\ wal.mode = "rename"
    /\ wal.last # <<>>
    /\ wal.last[1].mode = "rename"
    /\ ~wal.last[1].dry_run
    /\ wal.last[1].segment_size = wal.segment_size

(* C33, amended: when process_directory has run once, not in dry-run, and
   skipped no file because its target existed, running the tool again on
   the same directory with the same segment size renames no file *)
C33_SecondRunAfterNoSkipRenamesNothing ==
    [][ (WalHandling /\ WalSecondPass /\ wal.last[1].skipped = 0)
        => ( wal'.dir = wal.dir /\ wal'.stats.renamed = wal.stats.renamed ) ]_vars

(* C33, witness: a second renaming run has ended after a first one that
   renamed a file and skipped none; it found a correctly named segment *)
C33_Witness ==
    /\ WalSecondPass
    /\ wal.phase = "exited"
    /\ ~wal.dry_run
    /\ wal.last[1].skipped = 0
    /\ wal.last[1].renamed >= 1
    /\ wal.stats.already_correct >= 1
    /\ wal.stats.renamed = 0

(* process_directory has just ended *)
WalPassEnded == wal.phase = "exited" /\ wal.mode = "rename"

(* where the file listed as f is when the pass has ended: under f if f
   still holds its content, else under the name computed from its header *)
WalPlace(f) ==
    IF f \in DOMAIN wal.dir /\ wal.dir[f] = wal.listed[f] THEN f
    ELSE LET r == parse_wal_file(wal.listed, f, wal.segment_size)
         IN  IF r = NoResult THEN f ELSE r[1].new_name

(* C34: process_directory only renames: every file listed at the start of
   the pass is present at its end with the same content under its old or
   its computed name, no two listed files end under one name, and the
   number of files is the same *)
C34_OnlyRenames ==
    WalPassEnded =>
        /\ \A f \in DOMAIN wal.listed :
                /\ WalPlace(f) \in DOMAIN wal.dir
                /\ wal.dir[WalPlace(f)] = wal.listed[f]
        /\ \A f, g \in DOMAIN wal.listed : f # g => WalPlace(f) # WalPlace(g)
        /\ Cardinality(DOMAIN wal.dir) = Cardinality(DOMAIN wal.listed)

(* C34, witness: a pass has ended that renamed one file and left another
   because its target existed *)
C34_Witness ==
    /\ WalPassEnded
    /\ wal.stats.renamed >= 1
    /\ wal.stats.skipped >= 1
    /\ wal.dir # wal.listed

(* C32: for one WALRenamer, rollback_changes after process_directory
   restores the directory as process_directory listed it, every file under
   its original name with its content, and leaves no recorded operation *)
C32_RollbackChangesRestores ==
    [][ (WalPassEnded /\ wal'.mode = "rolled back")
        => ( /\ wal'.dir = wal.listed
             /\ \A i \in 1..Len(wal.operations) :
                    wal.operations[i].old_name \in DOMAIN wal'.dir
             /\ wal'.operations = <<>> ) ]_vars

(* C32, witness: a rolled back pass that had renamed a chain: the segment
   that sorts first has moved to its free target and the later file has
   taken the name it left *)
C32_Witness ==
    /\ wal.mode = "rolled back"
    /\ ~wal.dry_run
    /\ \E f, g \in DOMAIN wal.dir :
            /\ StrLess(f, g)
            /\ Head(f) # 46 /\ Head(g) # 46
            /\ WalParsed(f) # NoResult /\ WalParsed(g) # NoResult
            /\ WalTarget(g) = f
            /\ WalTarget(f) # f
            /\ WalTarget(f) \notin DOMAIN wal.dir

(* the segment just processed by pcap_analyzer_v8.py and its flow *)
V8Seg == pkt'[1]

V8Key == V8FlowKey(V8Seg.src, V8Seg.dst)

V8Before ==
    IF V8Key \in DOMAIN tcp_engine.flows THEN tcp_engine.flows[V8Key]
    ELSE V8TCPFlow(V8Seg)

V8After == tcp_engine'.flows[V8Key]

V8Handled == tcp_engine'.packet_count = tcp_engine.packet_count + 1

(* C31: a segment sent by the first-seen endpoint of its flow updates fwd
   and leaves bwd alone, a segment sent by the other endpoint updates bwd
   and leaves fwd alone, also when the two endpoints share their address *)
C31_EndpointsInDifferentStreams ==
    [][ V8Handled =>
          IF V8Seg.src = <<V8After.src_ip, V8After.src_port>>
          THEN /\ V8After.fwd.packet_count = V8Before.fwd.packet_count + 1
               /\ V8After.bwd.packet_count = V8Before.bwd.packet_count
          ELSE /\ V8After.bwd.packet_count = V8Before.bwd.packet_count + 1
               /\ V8After.fwd.packet_count = V8Before.fwd.packet_count ]_vars

====
